---- MODULE Spec2Model ----
(***************************************************************************)
(* Model of the InnoDB instrumented allocation layer                       *)
(* (storage/innobase/include/ut0new.h): the call-site key lookup over      *)
(* auto_event_names, ut_allocator<T> with its PFS prefix header, and the   *)
(* ut::new / ut::new_arr / ut::aligned_new families.                       *)
(***************************************************************************)
EXTENDS Integers, Sequences, FiniteSets, TLC

VARIABLES
  file,       \* the MY_BASENAME string handed to ut_new_get_key_by_file
  key_index,  \* the value of UT_NEW_THIS_FILE_PSI_INDEX once evaluated
  gcc5,       \* gcc 5 build: the key UT_NEW_THIS_FILE_PSI_KEY yields and the
              \* index the recursion of ut_new_get_key_by_base_file ended at
  heap,       \* address -> block granted by the OS allocator (or NoBlock)
  psi_bytes,  \* accounting backend: key -> bytes of memory_alloc - memory_free
  call,       \* the call that ran last: entry point, arguments, outcome
  trace,      \* what that call did, in order: OS calls, accounting calls,
              \* constructor and destructor runs, the exception leaving it
  handle,     \* an ut::aligned_pointer / ut::aligned_array_pointer object:
              \* its member ptr, sizeof(T), the build it was compiled in
  threads,    \* thread -> where it is inside a call on the shared
              \* ut_allocator, the arguments, the blocks it owns
  net         \* a net::dynamic_buffer with the string under it, or a
              \* net::consuming_buffers with its buffer sequence

vars == <<file, key_index, gcc5, heap, psi_bytes, call, trace, handle, threads, net>>

(***************************************************************************)
(* Key registry: auto_event_names and the constexpr lookup (loop variant). *)
(***************************************************************************)

\* static constexpr const char *auto_event_names[], in table order.
auto_event_names == <<
    "api0api", "api0misc", "btr0btr", "btr0cur", "btr0load", "btr0pcur",
    "btr0sea", "btr0types", "buf", "buf0buddy", "buf0buf", "buf0checksum",
    "buf0dblwr", "buf0dump", "buf0flu", "buf0lru", "buf0rea", "buf0stats",
    "buf0types", "checksum", "crc32", "create", "data0data", "data0type",
    "data0types", "db0err", "ddl0buffer", "ddl0builder", "ddl0ctx",
    "ddl0ddl", "ddl0file-reader", "ddl0loader", "ddl0merge", "ddl0rtree",
    "ddl0par-scan", "dict", "dict0boot", "dict0crea", "dict0dd", "dict0dict",
    "dict0load", "dict0mem", "dict0priv", "dict0sdi", "dict0stats",
    "dict0stats_bg", "dict0types", "dyn0buf", "dyn0types", "eval0eval",
    "eval0proc", "fil0fil", "fil0types", "file", "fsp0file", "fsp0fsp",
    "fsp0space", "fsp0sysspace", "fsp0types", "fts0ast", "fts0blex",
    "fts0config", "fts0fts", "fts0opt", "fts0pars", "fts0plugin", "fts0priv",
    "fts0que", "fts0sql", "fts0tlex", "fts0tokenize", "fts0types", "fts0vlc",
    "fut0fut", "fut0lst", "gis0geo", "gis0rtree", "gis0sea", "gis0type",
    "ha0ha", "ha0storage", "ha_innodb", "ha_innopart", "ha_prototypes",
    "handler0alter", "hash0hash", "i_s", "ib0mutex", "ibuf0ibuf",
    "ibuf0types", "lexyy", "lob0lob", "lock0iter", "lock0lock", "lock0prdt",
    "lock0priv", "lock0types", "lock0wait", "log0log", "log0recv",
    "log0write", "mach0data", "mem", "mem0mem", "memory", "mtr0log",
    "mtr0mtr", "mtr0types", "os0atomic", "os0event", "os0file", "os0numa",
    "os0once", "os0proc", "os0thread", "page", "page0cur", "page0page",
    "page0size", "page0types", "page0zip", "pars0grm", "pars0lex",
    "pars0opt", "pars0pars", "pars0sym", "pars0types", "que0que",
    "que0types", "read0read", "read0types", "rec", "rem0cmp", "rem0rec",
    "rem0types", "row0ext", "row0ft", "row0import", "row0ins", "row0log",
    "row0mysql", "row0purge", "row0quiesce", "row0row", "row0sel",
    "row0types", "row0uins", "row0umod", "row0undo", "row0upd", "row0vers",
    "sess0sess", "srv0conc", "srv0mon", "srv0srv", "srv0start", "srv0tmp",
    "sync0arr", "sync0debug", "sync0policy", "sync0sharded_rw", "sync0rw",
    "sync0sync", "sync0types", "trx0i_s", "trx0purge", "trx0rec", "trx0roll",
    "trx0rseg", "trx0sys", "trx0trx", "trx0types", "trx0undo", "trx0xa",
    "usr0sess", "usr0types", "ut", "ut0byte", "ut0counter", "ut0crc32",
    "ut0dbg", "ut0link_buf", "ut0list", "ut0lock_free_hash", "ut0lst",
    "ut0mem", "ut0mutex", "ut0new", "ut0pool", "ut0rbt", "ut0rnd", "ut0sort",
    "ut0stage", "ut0ut", "ut0vec", "ut0wqueue", "zipdecompress"
>>

n_auto == Len(auto_event_names)

\* The terminating NUL of a C string.
NUL == "\\0"

\* s[i] of a zero-terminated C string (i is 0-based); reading beyond the
\* terminator is out of bounds.
CharAt(s, i) ==
  IF i < Len(s) THEN SubSeq(s, i + 1, i + 1)
  ELSE IF i = Len(s) THEN NUL
  ELSE "out-of-bounds"

\* A comparison the other way round: is a a prefix of b?
ut_string_begins_with_reversed(a, b, b_len) ==
  Len(a) <= b_len /\ SubSeq(b, 1, Len(a)) = a

RECURSIVE begins_with_from(_, _, _, _)
begins_with_from(a, b, b_len, i) ==
  IF i >= b_len THEN TRUE
  ELSE IF CharAt(a, i) # CharAt(b, i) THEN FALSE
  ELSE begins_with_from(a, b, b_len, i + 1)

\* for (i = 0; i < b_len; ++i) if (a[i] != b[i]) return false; return true;
ut_string_begins_with(a, b, b_len) == begins_with_from(a, b, b_len, 0)

RECURSIVE len_without_extension_from(_, _)
len_without_extension_from(f, i) ==
  IF CharAt(f, i) = NUL \/ CharAt(f, i) = "." THEN i
  ELSE len_without_extension_from(f, i + 1)

\* A length that counts the extension in.
ut_len_without_extension_to_end(f) == Len(f)

\* for (i = 0;; ++i) if (file[i] == '\0' || file[i] == '.') return i;
ut_len_without_extension(f) == len_without_extension_from(f, 0)

\* A scan that keeps the last matching entry instead of the first.
ut_new_get_key_by_base_file_last(f, len) ==
  LET hits == {i \in 1..n_auto :
                 \A k \in 1..len :
                   k <= Len(auto_event_names[i]) /\
                   SubSeq(auto_event_names[i], k, k) = SubSeq(f, k, k)}
  IN  IF hits = {} THEN -1
      ELSE (CHOOSE i \in hits : \A j \in hits : j <= i) - 1

\* for (i = 0; i < n_auto; ++i) if (begins_with(names[i], file, len)) return i;
\* return -1;  -- the loop leaves at the first i that matches
ut_new_get_key_by_base_file(f, len) ==
  LET hit(i) == ut_string_begins_with(auto_event_names[i + 1], f, len)
  IN  IF \E i \in 0..(n_auto - 1) : hit(i)
      THEN CHOOSE i \in 0..(n_auto - 1) :
             hit(i) /\ \A j \in 0..(i - 1) : ~hit(j)
      ELSE -1

ut_new_get_key_by_file(f) ==
  ut_new_get_key_by_base_file(f, ut_len_without_extension(f))

\* PSI_memory_key auto_event_keys[n_auto]: ut_new_boot() registers entry i
\* under the name of auto_event_names[i], so each entry has a key of its own.
auto_event_keys == [i \in 1..n_auto |-> "memory/innodb/" \o auto_event_names[i]]

(***************************************************************************)
(* The variant for gcc 5 (#if __GNUG__ == 5): recursive constexpr          *)
(* functions that yield the key itself.                                    *)
(***************************************************************************)

\* index == b_len || (a[index] == b[index] && begins_with(a, b, b_len, index + 1))
RECURSIVE ut_string_begins_with_gcc5(_, _, _, _)
ut_string_begins_with_gcc5(a, b, b_len, index) ==
  \/ index = b_len
  \/ /\ CharAt(a, index) = CharAt(b, index)
     /\ ut_string_begins_with_gcc5(a, b, b_len, index + 1)

\* (file[index] == '\0' || file[index] == '.') ? index : len(file, index + 1)
RECURSIVE ut_len_without_extension_gcc5(_, _)
ut_len_without_extension_gcc5(f, index) ==
  IF CharAt(f, index) = NUL \/ CharAt(f, index) = "." THEN index
  ELSE ut_len_without_extension_gcc5(f, index + 1)

Unevaluated == "unevaluated"

\* An invocation that compares the file name with its extension.
ut_new_get_key_by_base_file_gcc5_with_extension(f, len, index) ==
  IF index = n_auto
  THEN [index |-> index, key |-> "PSI_NOT_INSTRUMENTED"]
  ELSE IF ut_string_begins_with_gcc5(auto_event_names[index + 1], f, Len(f), 0)
    THEN [index |-> index, key |-> auto_event_keys[index + 1]]
  ELSE [index |-> index + 1, key |-> Unevaluated]

\* One invocation of ut_new_get_key_by_base_file(file, len, index): the key
\* it yields, or the invocation with index + 1 it hands over to.
ut_new_get_key_by_base_file_gcc5(f, len, index) ==
  IF index = n_auto
  THEN [index |-> index, key |-> "PSI_NOT_INSTRUMENTED"]
  ELSE IF ut_string_begins_with_gcc5(auto_event_names[index + 1], f, len, 0)
    THEN [index |-> index, key |-> auto_event_keys[index + 1]]
  ELSE [index |-> index + 1, key |-> Unevaluated]

\* ut_new_get_key_by_file(file): the invocation with index 0 hands over to
\* index 1 and so on; the value is the key of the first invocation of that
\* chain that yields one.
ut_new_get_key_by_file_gcc5(f) ==
  LET len == ut_len_without_extension_gcc5(f, 0)
      invocation(i) == ut_new_get_key_by_base_file_gcc5(f, len, i)
      last == CHOOSE i \in 0..n_auto :
                /\ invocation(i).key # Unevaluated
                /\ \A j \in 0..(i - 1) :
                     invocation(j) = [index |-> j + 1, key |-> Unevaluated]
  IN  invocation(last)

\* UT_NEW_THIS_FILE_PSI_KEY, given UT_NEW_THIS_FILE_PSI_INDEX
UT_NEW_THIS_FILE_PSI_KEY(index) ==
  IF index = -1 THEN "PSI_NOT_INSTRUMENTED" ELSE auto_event_keys[index + 1]

\* The values MY_BASENAME takes: a file of every table entry, with and
\* without an extension, longer and shorter names, and unregistered files.
FileNames ==
  LET names == {auto_event_names[i] : i \in 1..n_auto}
  IN  names
      \cup {n \o ".cc" : n \in names}
      \cup {n \o "_extra" : n \in names}
      \cup {n \o "_extra.ic" : n \in names}
      \cup {SubSeq(n, 1, Len(n) - 1) : n \in names}
      \cup {"", ".h", "b", "zzz_unregistered", "zzz_unregistered.cc", "ut0new.h"}

(***************************************************************************)
(* Memory, accounting backend and the events a call leaves behind.         *)
(***************************************************************************)

MaxBlocks == 1          \* blocks the OS allocator lets be outstanding
MaxCount == 1           \* largest n_elements handed to ut_allocator
alloc_max_retries == 2  \* extern const size_t alloc_max_retries

SIZE_MAX == 65535       \* std::numeric_limits<size_type>::max(), 16-bit here
sizeof_T == 4           \* sizeof(T) of the ut_allocator<T> instances
sizeof_ut_new_pfx_t == 32

PSI_NOT_INSTRUMENTED == "PSI_NOT_INSTRUMENTED"
CallKeys == {PSI_NOT_INSTRUMENTED, "mem_key_other"}      \* key arguments
\* The ut_allocator instances in use (each is its m_key), with the thread
\* that calls through it.
Callers == {[m_key |-> PSI_NOT_INSTRUMENTED, thd |-> "thd1"],
            [m_key |-> "mem_key_std", thd |-> "thd2"]}
PSI_keys == {c.m_key : c \in Callers} \cup CallKeys

NULL == 0
\* The callers of the entry points hold at most MaxBlocks blocks at a time;
\* one more address is there for an owning wrapper that is told to allocate
\* while it holds a block.
Addrs == 1..(MaxBlocks + 1)
\* kind tells which entry point the block came from, elem the sizeof of the
\* objects constructed in it; m_key, m_owner and m_size are its header;
\* pattern is the number of leading user bytes that hold what the caller
\* wrote there, mapped the bytes the OS has mapped for a large allocation.
NoBlock == [kind |-> "none", m_key |-> PSI_NOT_INSTRUMENTED,
            m_owner |-> "nobody", m_size |-> 0, elem |-> 0, pattern |-> 0,
            mapped |-> 0]

Live(h) == {a \in Addrs : h[a].kind # "none"}
FreeAddrs(h) == Addrs \ Live(h)
\* the OS allocator has memory left to grant
CanGrant(h) == Cardinality(Live(h)) < MaxBlocks
Min(S) == CHOOSE x \in S : \A y \in S : x <= y

\* One step of a call, as the trace records it.
Ev(e, k, sz, o, p) == [ev |-> e, key |-> k, size |-> sz, owner |-> o, ptr |-> p]
EvOs(e, sz, p) == Ev(e, PSI_NOT_INSTRUMENTED, sz, "nobody", p)
EvSleep == EvOs("sleep", 1, NULL)
EvThrow(what) == Ev("throw", what, 0, "nobody", NULL)
EvCtor(idx, p) == EvOs("ctor", idx, p)
EvDtor(idx, p) == EvOs("dtor", idx, p)

IsAccounting(e) == e.ev \in {"memory_alloc", "memory_free"}
AccountingCalls(tr) == SelectSeq(tr, IsAccounting)

\* PSI_MEMORY_CALL(memory_alloc)(key, size, &owner): books size under key,
\* hands the calling thread back as owner and returns the key to store.
\* psi holds the bytes booked under each key the backend records; a key it
\* does not record is answered with PSI_NOT_INSTRUMENTED and books nothing.
memory_alloc(psi, key, size) ==
  IF key \in DOMAIN psi THEN [psi EXCEPT ![key] = @ + size] ELSE psi

\* the key memory_alloc returns
memory_alloc_key(psi, key) ==
  IF key \in DOMAIN psi THEN key ELSE PSI_NOT_INSTRUMENTED

\* PSI_MEMORY_CALL(memory_free)(key, size, owner)
memory_free(psi, key, size) ==
  IF key \in DOMAIN psi THEN [psi EXCEPT ![key] = @ - size] ELSE psi

(***************************************************************************)
(* ut_allocator<T> (UNIV_PFS_MEMORY build).  Every method is an operator   *)
(* from the machine state st = [heap, psi, tr] to the state it leaves,     *)
(* with its return value ret and the exception exc that leaves it.         *)
(***************************************************************************)

NoExc == "none"
NoThrow == -1     \* no constructor of the element type throws

Returned(st, r) == [heap |-> st.heap, psi |-> st.psi, tr |-> st.tr,
                    ret |-> r, exc |-> NoExc]
Thrown(st, what) == [heap |-> st.heap, psi |-> st.psi,
                     tr |-> Append(st.tr, EvThrow(what)),
                     ret |-> NULL, exc |-> what]
Did(st, evs) == [st EXCEPT !.tr = @ \o evs]

\* size_t arithmetic
SizeT(x) == x % (SIZE_MAX + 1)

\* ut_allocator::max_size()
\* A max_size() that forgets the header (the build without UNIV_PFS_MEMORY).
max_size_without_pfx == SIZE_MAX \div sizeof_T

\* ut_allocator::max_size()
max_size == (SIZE_MAX - sizeof_ut_new_pfx_t) \div sizeof_T

\* A retry loop that leaves only when retries > alloc_max_retries.
RECURSIVE os_retry_once_more(_, _, _, _, _)
os_retry_once_more(fn, total_bytes, grant, os_fail, retries) ==
  LET ptr == IF retries > os_fail THEN grant ELSE NULL
  IN  IF ptr # NULL \/ retries > alloc_max_retries
      THEN [ptr |-> ptr, tr |-> <<EvOs(fn, total_bytes, ptr)>>]
      ELSE LET rest == os_retry_once_more(fn, total_bytes, grant, os_fail,
                                          retries + 1)
           IN  [ptr |-> rest.ptr,
                tr |-> <<EvOs(fn, total_bytes, NULL), EvSleep>> \o rest.tr]

\* The retry loop around ::malloc / ::calloc / ::realloc.  grant is the
\* address the OS hands out once it stops refusing (NULL: it never does),
\* os_fail the number of attempts it refuses first.
RECURSIVE os_retry(_, _, _, _, _)
os_retry(fn, total_bytes, grant, os_fail, retries) ==
  LET ptr == IF retries > os_fail THEN grant ELSE NULL
  IN  IF ptr # NULL \/ retries >= alloc_max_retries
      THEN [ptr |-> ptr, tr |-> <<EvOs(fn, total_bytes, ptr)>>]
      ELSE LET rest == os_retry(fn, total_bytes, grant, os_fail, retries + 1)
           IN  [ptr |-> rest.ptr,
                tr |-> <<EvOs(fn, total_bytes, NULL), EvSleep>> \o rest.tr]

\* An allocate_trace that writes the record at the user pointer pfx + 1.
allocate_trace_at_user_pointer(m_key, size, key, thd, pfx, st) ==
  LET k == IF m_key # PSI_NOT_INSTRUMENTED THEN m_key ELSE key
  IN  [st EXCEPT
         !.psi = memory_alloc(@, k, size),
         !.heap[pfx] = [@ EXCEPT !.m_key = k, !.m_owner = thd, !.m_size = size,
                                 !.pattern = 0],
         !.tr = Append(@, Ev("memory_alloc", k, size, thd, pfx))]

\* An allocate_trace that writes the record of the lowest block allocated.
allocate_trace_lowest_block(m_key, size, key, thd, pfx, st) ==
  LET k == IF m_key # PSI_NOT_INSTRUMENTED THEN m_key ELSE key
      at == Min(Live(st.heap))
  IN  [st EXCEPT
         !.psi = memory_alloc(@, k, size),
         !.heap[at] = [@ EXCEPT !.m_key = k, !.m_owner = thd, !.m_size = size],
         !.tr = Append(@, Ev("memory_alloc", k, size, thd, pfx))]

\* An allocate_trace that prefers the key of the call to the allocator's.
allocate_trace_call_key_first(m_key, size, key, thd, pfx, st) ==
  LET k == IF key # PSI_NOT_INSTRUMENTED THEN key ELSE m_key
  IN  [st EXCEPT
         !.psi = memory_alloc(@, k, size),
         !.heap[pfx] = [@ EXCEPT !.m_key = memory_alloc_key(st.psi, k),
                                 !.m_owner = thd, !.m_size = size],
         !.tr = Append(@, Ev("memory_alloc", k, size, thd, pfx))]

\* ut_allocator::allocate_trace(size, key, pfx)
allocate_trace(m_key, size, key, thd, pfx, st) ==
  LET k == IF m_key # PSI_NOT_INSTRUMENTED THEN m_key ELSE key
  IN  [st EXCEPT
         !.psi = memory_alloc(@, k, size),
         !.heap[pfx] = [@ EXCEPT !.m_key = memory_alloc_key(st.psi, k),
                                 !.m_owner = thd, !.m_size = size],
         !.tr = Append(@, Ev("memory_alloc", k, size, thd, pfx))]

\* A deallocate_trace that reports the user bytes instead of m_size.
deallocate_trace_user_bytes(pfx, st) ==
  LET h == st.heap[pfx]
  IN  [st EXCEPT
         !.psi = memory_free(@, h.m_key, h.m_size - sizeof_ut_new_pfx_t),
         !.tr = Append(@, Ev("memory_free", h.m_key,
                             h.m_size - sizeof_ut_new_pfx_t, h.m_owner, pfx))]

\* ut_allocator::deallocate_trace(pfx)
deallocate_trace(pfx, st) ==
  LET h == st.heap[pfx]
  IN  [st EXCEPT
         !.psi = memory_free(@, h.m_key, h.m_size),
         !.tr = Append(@, Ev("memory_free", h.m_key, h.m_size, h.m_owner, pfx))]

\* A reallocate that books the new block before it retires the old record.
retrace_install_first(m_key, total_bytes, key, thd, pfx_new, st) ==
  deallocate_trace(pfx_new,
                   allocate_trace(m_key, total_bytes, key, thd, pfx_new, st))

\* reallocate, once ::realloc has succeeded: pfx_new still describes the old
\* block; deallocate_trace(pfx_new); allocate_trace(total_bytes, key, pfx_new).
retrace(m_key, total_bytes, key, thd, pfx_new, st) ==
  allocate_trace(m_key, total_bytes, key, thd, pfx_new,
                 deallocate_trace(pfx_new, st))

\* ::free(pfx)
os_free(pfx, st) ==
  [st EXCEPT !.heap[pfx] = NoBlock, !.tr = Append(@, EvOs("free", 0, pfx))]

\* An allocate that hands the caller the nullptr of the OS allocator.
allocate_passing_null(m_key, n_elements, key, set_to_zero, thd, os_fail, st) ==
  IF n_elements > max_size THEN Thrown(st, "std::bad_array_new_length")
  ELSE
    LET total_bytes == SizeT(SizeT(n_elements * sizeof_T) + sizeof_ut_new_pfx_t)
        grant == IF CanGrant(st.heap) THEN Min(FreeAddrs(st.heap)) ELSE NULL
        os == os_retry(IF set_to_zero THEN "calloc" ELSE "malloc",
                       total_bytes, grant, os_fail, 1)
        st1 == Did(st, os.tr)
    IN  IF os.ptr = NULL THEN Returned(st1, NULL)
        ELSE LET st2 == [st1 EXCEPT !.heap[os.ptr] =
                           [NoBlock EXCEPT !.kind = "ut_allocator",
                                           !.elem = sizeof_T]]
             IN  Returned(allocate_trace(m_key, total_bytes, key, thd,
                                         os.ptr, st2), os.ptr)

\* ut_allocator::allocate(n_elements, hint, key, set_to_zero)
allocate(m_key, n_elements, key, set_to_zero, thd, os_fail, st) ==
  IF n_elements > max_size THEN Thrown(st, "std::bad_array_new_length")
  ELSE
    LET total_bytes == SizeT(SizeT(n_elements * sizeof_T) + sizeof_ut_new_pfx_t)
        grant == IF CanGrant(st.heap) THEN Min(FreeAddrs(st.heap)) ELSE NULL
        os == os_retry(IF set_to_zero THEN "calloc" ELSE "malloc",
                       total_bytes, grant, os_fail, 1)
        st1 == Did(st, os.tr)
    IN  IF os.ptr = NULL THEN Thrown(st1, "std::bad_alloc")
        ELSE LET st2 == [st1 EXCEPT !.heap[os.ptr] =
                           [NoBlock EXCEPT !.kind = "ut_allocator",
                                           !.elem = sizeof_T]]
             IN  Returned(allocate_trace(m_key, total_bytes, key, thd,
                                         os.ptr, st2), os.ptr)

\* ut_allocator::deallocate(ptr, n_elements)
deallocate(ptr, st) ==
  IF ptr = NULL THEN Returned(st, NULL)
  ELSE Returned(os_free(ptr, deallocate_trace(ptr, st)), NULL)

\* A reallocate that gives the old block up when ::realloc keeps failing.
reallocate_freeing_on_failure(m_key, ptr, n_elements, key, thd, os_fail, moved, st) ==
  IF n_elements = 0 THEN deallocate(ptr, st)
  ELSE IF ptr = NULL THEN allocate(m_key, n_elements, key, FALSE, thd, os_fail, st)
  ELSE IF n_elements > max_size THEN Returned(st, NULL)
  ELSE
    LET pfx_old == ptr
        total_bytes == SizeT(SizeT(n_elements * sizeof_T) + sizeof_ut_new_pfx_t)
        grant == IF moved /\ CanGrant(st.heap)
                 THEN Min(FreeAddrs(st.heap)) ELSE pfx_old
        os == os_retry("realloc", total_bytes, grant, os_fail, 1)
        pfx_new == os.ptr
        st1 == Did(st, os.tr)
    IN  IF pfx_new = NULL THEN Returned(os_free(pfx_old, st1), NULL)
        ELSE LET \* realloc(3): the bytes up to the lesser of the old and
                 \* the new size are those of the old block, header included
                 kept == [st1.heap[pfx_old] EXCEPT
                            !.pattern = IF @ < total_bytes - sizeof_ut_new_pfx_t
                                        THEN @
                                        ELSE total_bytes - sizeof_ut_new_pfx_t]
                 st2 == [st1 EXCEPT !.heap =
                           [[@ EXCEPT ![pfx_old] = NoBlock]
                              EXCEPT ![pfx_new] = kept]]
             IN  Returned(retrace(m_key, total_bytes, key, thd, pfx_new, st2),
                          pfx_new)

\* ut_allocator::reallocate(ptr, n_elements, key); moved tells whether
\* ::realloc hands the bytes back at another address.
reallocate(m_key, ptr, n_elements, key, thd, os_fail, moved, st) ==
  IF n_elements = 0 THEN deallocate(ptr, st)
  ELSE IF ptr = NULL THEN allocate(m_key, n_elements, key, FALSE, thd, os_fail, st)
  ELSE IF n_elements > max_size THEN Returned(st, NULL)
  ELSE
    LET pfx_old == ptr
        total_bytes == SizeT(SizeT(n_elements * sizeof_T) + sizeof_ut_new_pfx_t)
        grant == IF moved /\ CanGrant(st.heap)
                 THEN Min(FreeAddrs(st.heap)) ELSE pfx_old
        os == os_retry("realloc", total_bytes, grant, os_fail, 1)
        pfx_new == os.ptr
        st1 == Did(st, os.tr)
    IN  IF pfx_new = NULL THEN Returned(st1, NULL)
        ELSE LET \* realloc(3): the bytes up to the lesser of the old and
                 \* the new size are those of the old block, header included
                 kept == [st1.heap[pfx_old] EXCEPT
                            !.pattern = IF @ < total_bytes - sizeof_ut_new_pfx_t
                                        THEN @
                                        ELSE total_bytes - sizeof_ut_new_pfx_t]
                 st2 == [st1 EXCEPT !.heap =
                           [[@ EXCEPT ![pfx_old] = NoBlock]
                              EXCEPT ![pfx_new] = kept]]
             IN  Returned(retrace(m_key, total_bytes, key, thd, pfx_new, st2),
                          pfx_new)

\* for (i = 0; i < n_elements; i++) { new (p) T; ++p; }
RECURSIVE construct_elements(_, _, _, _)
construct_elements(i, n_elements, throw_at, first) ==
  IF i >= n_elements THEN [thrown |-> FALSE, i |-> i, tr |-> <<>>]
  ELSE IF i = throw_at
    THEN [thrown |-> TRUE, i |-> i, tr |-> <<EvOs("ctor_throws", i, first)>>]
  ELSE LET rest == construct_elements(i + 1, n_elements, throw_at, first)
       IN  [rest EXCEPT !.tr = <<EvCtor(i, first)>> \o @]

\* for (j = 0; j < i; j++) { --p; p->~T(); }      (p is the element index)
RECURSIVE destroy_backwards(_, _, _, _)
destroy_backwards(j, i, p, first) ==
  IF j >= i THEN <<>>
  ELSE <<EvDtor(p - 1, first)>> \o destroy_backwards(j + 1, i, p - 1, first)

\* ut_allocator::new_array(n_elements, key)
new_array(m_key, n_elements, key, thd, os_fail, throw_at, st) ==
  LET al == allocate(m_key, n_elements, key, FALSE, thd, os_fail, st)
  IN  IF al.exc # NoExc THEN al
      ELSE
        LET first == al.ret
            built == construct_elements(0, n_elements, throw_at, first)
            st1 == Did([heap |-> al.heap, psi |-> al.psi, tr |-> al.tr],
                       built.tr)
        IN  IF ~built.thrown THEN Returned(st1, first)
            ELSE LET st2 == Did(st1, destroy_backwards(0, built.i, built.i, first))
                     de == deallocate(first, st2)
                 IN  Thrown([heap |-> de.heap, psi |-> de.psi, tr |-> de.tr],
                            "T::T()")

\* T *p = ptr + n_elements - 1;
\* for (i = 0; i < n_elements; i++) { p->~T(); --p; }
RECURSIVE destroy_from_last(_, _, _, _)
destroy_from_last(i, n_elements, p, first) ==
  IF i >= n_elements THEN <<>>
  ELSE <<EvDtor(p, first)>> \o destroy_from_last(i + 1, n_elements, p - 1, first)

\* A count taken from the size of the whole block, header included.
n_elements_allocated_of_block(ptr, st) ==
  st.heap[ptr].m_size \div sizeof_T

\* ut_allocator::n_elements_allocated(ptr)
n_elements_allocated(ptr, st) ==
  (st.heap[ptr].m_size - sizeof_ut_new_pfx_t) \div sizeof_T

\* ut_allocator::delete_array(ptr)
delete_array(ptr, st) ==
  IF ptr = NULL THEN Returned(st, NULL)
  ELSE LET n_elements == n_elements_allocated(ptr, st)
       IN  deallocate(ptr, Did(st, destroy_from_last(0, n_elements,
                                                     n_elements - 1, ptr)))

CPU_PAGE_SIZE == 4096

\* The byte address of the a-th region the OS maps large allocations in,
\* and the region an address is the base of.
PageBase(a) == a * CPU_PAGE_SIZE
RegionOf(base) == base \div CPU_PAGE_SIZE

\* os_mem_alloc_large(&n): rounds *n up to the page size and maps that many
\* bytes at a page-aligned address; nullptr when the OS refuses
os_mem_alloc_large(n, os_ok, st) ==
  LET size == (SizeT(n + (CPU_PAGE_SIZE - 1)) \div CPU_PAGE_SIZE)
                 * CPU_PAGE_SIZE
      call_ev == EvOs("os_mem_alloc_large", n, NULL)
  IN  IF ~os_ok \/ size = 0 \/ FreeAddrs(st.heap) = {}
      THEN [st |-> Did(st, <<call_ev>>), ptr |-> NULL, n |-> n]
      ELSE LET a == Min(FreeAddrs(st.heap))
           IN  [st |-> [st EXCEPT
                          !.heap[a] = [NoBlock EXCEPT !.kind = "large",
                                                      !.mapped = size],
                          !.tr = @ \o <<call_ev,
                                        EvOs("mapped", size, PageBase(a))>>],
                ptr |-> PageBase(a), n |-> size]

\* os_mem_free_large(ptr, size)
os_mem_free_large(ptr, size, st) ==
  [st EXCEPT !.heap[RegionOf(ptr)] = NoBlock,
             !.tr = Append(@, EvOs("os_mem_free_large", size, ptr))]

\* ut_allocator::allocate_large(n_elements)
allocate_large(m_key, n_elements, thd, os_ok, st) ==
  IF n_elements = 0 \/ n_elements > max_size THEN Returned(st, NULL)
  ELSE
    LET n_bytes == SizeT(SizeT(n_elements * sizeof_T) + CPU_PAGE_SIZE)
        os == os_mem_alloc_large(n_bytes, os_ok, st)
        ptr == os.ptr
    IN  IF ptr = NULL THEN Returned(os.st, NULL)
        ELSE LET pfx == RegionOf(ptr)
                 st1 == [os.st EXCEPT !.heap[pfx].elem = sizeof_T]
             IN  Returned(allocate_trace(m_key, os.n, PSI_NOT_INSTRUMENTED,
                                         thd, pfx, st1),
                          ptr + CPU_PAGE_SIZE)

\* ut_allocator::deallocate_large(ptr)
deallocate_large(ptr, st) ==
  IF ptr = NULL THEN Returned(st, NULL)
  ELSE LET deduced_alloc_large_ptr == ptr - CPU_PAGE_SIZE
           pfx == RegionOf(deduced_alloc_large_ptr)
           dealloc_size == st.heap[pfx].m_size
       IN  Returned(os_mem_free_large(deduced_alloc_large_ptr, dealloc_size,
                                      deallocate_trace(pfx, st)), NULL)

\* ut_allocator::large_page_size(ptr)
large_page_size(ptr, st) ==
  st.heap[RegionOf(ptr - CPU_PAGE_SIZE)].m_size - CPU_PAGE_SIZE

\* An equality that compares the keys of the two instances.
operator_eq_by_key(lhs, rhs) == lhs.m_key = rhs.m_key

\* operator==(const ut_allocator<T> &lhs, const ut_allocator<T> &rhs)
operator_eq(lhs, rhs) == TRUE

\* operator!=(const ut_allocator<T> &lhs, const ut_allocator<T> &rhs)
operator_ne(lhs, rhs) == ~operator_eq(lhs, rhs)

(***************************************************************************)
(* namespace ut: the object and array lifecycle on top of                  *)
(* detail::Alloc_ and detail::Aligned_alloc_ (PFS build).                  *)
(***************************************************************************)

MaxArr == 2          \* largest array count handed to ut::new_arr*
ElemSizes == {1, 2}  \* sizeof(T) of the element types in use
Alignments == {64}

\* bytes of PFS metadata detail::Alloc_ and detail::Aligned_alloc_ put in
\* front of the user bytes (ut::pfs_overhead())
pfs_overhead == 16

\* detail::Alloc_<impl>::alloc<Zero>(size, key), and, with kind "aligned",
\* detail::Aligned_alloc_<impl>::alloc<Zero>(size, alignment, key): a block
\* of size user bytes with its metadata in front, booked once; nullptr when
\* the OS allocator keeps refusing.
detail_alloc(kind, size, key, thd, os_ok, st) ==
  IF ~os_ok \/ FreeAddrs(st.heap) = {}
  THEN Returned(Did(st, <<EvOs(kind, size, NULL)>>), NULL)
  ELSE LET mem == Min(FreeAddrs(st.heap))
           total == size + pfs_overhead
       IN  Returned([st EXCEPT
                       !.heap[mem] = [kind |-> kind, m_key |-> key,
                                      m_owner |-> thd, m_size |-> total,
                                      elem |-> 0, pattern |-> 0,
                                      mapped |-> 0],
                       !.psi = memory_alloc(@, key, total),
                       !.tr = @ \o <<EvOs(kind, size, mem),
                                     Ev("memory_alloc", key, total, thd, mem)>>],
                    mem)

\* detail::Alloc_<impl>::free(ptr) / detail::Aligned_alloc_<impl>::free(ptr)
detail_free(ptr, st) ==
  IF ptr = NULL THEN st
  ELSE LET h == st.heap[ptr]
       IN  [st EXCEPT
              !.heap[ptr] = NoBlock,
              !.psi = memory_free(@, h.m_key, h.m_size),
              !.tr = @ \o <<Ev("memory_free", h.m_key, h.m_size, h.m_owner, ptr),
                            EvOs("free", 0, ptr)>>]

\* detail::Alloc_<impl>::datalen(ptr) / detail::Aligned_alloc_<impl>::datalen(ptr)
detail_datalen(ptr, st) == st.heap[ptr].m_size - pfs_overhead

\* The state a call is in when it has got its block: 'made' names the entry
\* point and sizeof_t the element type the caller will delete it as.
Got(al, made, sizeof_t) ==
  [heap |-> [al.heap EXCEPT ![al.ret] = [@ EXCEPT !.kind = made,
                                                   !.elem = sizeof_t]],
   psi |-> al.psi, tr |-> al.tr]

\* An exception leaves the call while the block is still allocated: the
\* pointer to it dies with the frame.
Lost(st, mem) == [st EXCEPT !.heap[mem] = [@ EXCEPT !.kind = "lost"]]

\* new_withkey whose catch block rethrows without ut::free(mem)
new_withkey_rethrow_only(key, sizeof_t, ctor_throws, thd, os_ok, st) ==
  LET al == detail_alloc("ut::malloc", sizeof_t, key, thd, os_ok, st)
      mem == al.ret
  IN  IF mem = NULL
      THEN Thrown([heap |-> al.heap, psi |-> al.psi, tr |-> al.tr],
                  "std::bad_alloc")
      ELSE LET st1 == Got(al, "new", sizeof_t)
           IN  IF ctor_throws
               THEN Thrown(Lost(Did(st1, <<EvOs("ctor_throws", 0, mem)>>), mem),
                           "T::T()")
               ELSE Returned(Did(st1, <<EvCtor(0, mem)>>), mem)

\* ut::new_withkey<T>(key, args...)
new_withkey(key, sizeof_t, ctor_throws, thd, os_ok, st) ==
  LET al == detail_alloc("ut::malloc", sizeof_t, key, thd, os_ok, st)
      mem == al.ret
  IN  IF mem = NULL
      THEN Thrown([heap |-> al.heap, psi |-> al.psi, tr |-> al.tr],
                  "std::bad_alloc")
      ELSE LET st1 == Got(al, "new", sizeof_t)
           IN  IF ctor_throws
               THEN Thrown(detail_free(mem,
                             Did(st1, <<EvOs("ctor_throws", 0, mem)>>)),
                           "T::T()")
               ELSE Returned(Did(st1, <<EvCtor(0, mem)>>), mem)

\* ut::delete_(ptr)
delete_(ptr, st) ==
  IF ptr = NULL THEN Returned(st, NULL)
  ELSE Returned(detail_free(ptr, Did(st, <<EvDtor(0, ptr)>>)), NULL)

\* arr_t{0, (detail::construct<T>(mem, sizeof(T) * idx++, args), 0)...}:
\* idx is incremented before the constructor of the element runs.
RECURSIVE construct_tuples(_, _, _, _, _)
construct_tuples(idx, n_args, sizeof_t, throw_at, mem) ==
  IF idx >= n_args THEN [thrown |-> FALSE, idx |-> idx, tr |-> <<>>]
  ELSE LET offset == sizeof_t * idx
           idx1 == idx + 1
       IN  IF offset \div sizeof_t = throw_at
           THEN [thrown |-> TRUE, idx |-> idx1,
                 tr |-> <<EvOs("ctor_throws", offset \div sizeof_t, mem)>>]
           ELSE LET rest == construct_tuples(idx1, n_args, sizeof_t,
                                             throw_at, mem)
                IN  [rest EXCEPT
                       !.tr = <<EvCtor(offset \div sizeof_t, mem)>> \o @]

\* for (; offset != 0; offset -= sizeof(T))
\*   reinterpret_cast<T *>(mem + offset - sizeof(T))->~T();
RECURSIVE destroy_down_from(_, _, _)
destroy_down_from(offset, sizeof_t, mem) ==
  IF offset = 0 THEN <<>>
  ELSE <<EvDtor((offset - sizeof_t) \div sizeof_t, mem)>>
       \o destroy_down_from(offset - sizeof_t, sizeof_t, mem)

\* new_arr_withkey whose rollback starts at idx * sizeof(T): it also
\* destructs the element whose constructor threw
new_arr_withkey_tuples_from_idx(key, n_args, sizeof_t, throw_at, thd, os_ok, st) ==
  LET al == detail_alloc("ut::malloc", SizeT(sizeof_t * n_args), key, thd,
                         os_ok, st)
      mem == al.ret
  IN  IF mem = NULL
      THEN Thrown([heap |-> al.heap, psi |-> al.psi, tr |-> al.tr],
                  "std::bad_alloc")
      ELSE LET built == construct_tuples(0, n_args, sizeof_t, throw_at, mem)
               st1 == Did(Got(al, "new_arr", sizeof_t), built.tr)
           IN  IF ~built.thrown THEN Returned(st1, mem)
               ELSE Thrown(detail_free(mem,
                             Did(st1, destroy_down_from(built.idx * sizeof_t,
                                                        sizeof_t, mem))),
                           "T::T()")

\* ut::new_arr_withkey<T>(key, args...), one tuple of arguments per element
new_arr_withkey_tuples(key, n_args, sizeof_t, throw_at, thd, os_ok, st) ==
  LET al == detail_alloc("ut::malloc", SizeT(sizeof_t * n_args), key, thd,
                         os_ok, st)
      mem == al.ret
  IN  IF mem = NULL
      THEN Thrown([heap |-> al.heap, psi |-> al.psi, tr |-> al.tr],
                  "std::bad_alloc")
      ELSE LET built == construct_tuples(0, n_args, sizeof_t, throw_at, mem)
               st1 == Did(Got(al, "new_arr", sizeof_t), built.tr)
           IN  IF ~built.thrown THEN Returned(st1, mem)
               ELSE Thrown(detail_free(mem,
                             Did(st1, destroy_down_from(
                                        (built.idx - 1) * sizeof_t,
                                        sizeof_t, mem))),
                           "T::T()")

\* for (; offset < sizeof(T) * count(); offset += sizeof(T)) new (mem + offset) T{};
RECURSIVE construct_count(_, _, _, _, _)
construct_count(offset, bytes, sizeof_t, throw_at, mem) ==
  IF offset >= bytes THEN [thrown |-> FALSE, offset |-> offset, tr |-> <<>>]
  ELSE IF offset \div sizeof_t = throw_at
    THEN [thrown |-> TRUE, offset |-> offset,
          tr |-> <<EvOs("ctor_throws", offset \div sizeof_t, mem)>>]
  ELSE LET rest == construct_count(offset + sizeof_t, bytes, sizeof_t,
                                   throw_at, mem)
       IN  [rest EXCEPT !.tr = <<EvCtor(offset \div sizeof_t, mem)>> \o @]

\* ut::new_arr_withkey<T>(key, ut::Count{count})
new_arr_withkey_count(key, count, sizeof_t, throw_at, thd, os_ok, st) ==
  LET al == detail_alloc("ut::malloc", SizeT(sizeof_t * count), key, thd,
                         os_ok, st)
      mem == al.ret
  IN  IF mem = NULL
      THEN Thrown([heap |-> al.heap, psi |-> al.psi, tr |-> al.tr],
                  "std::bad_alloc")
      ELSE LET built == construct_count(0, SizeT(sizeof_t * count), sizeof_t,
                                        throw_at, mem)
               st1 == Did(Got(al, "new_arr", sizeof_t), built.tr)
           IN  IF ~built.thrown THEN Returned(st1, mem)
               ELSE Thrown(detail_free(mem,
                             Did(st1, destroy_down_from(built.offset,
                                                        sizeof_t, mem))),
                           "T::T()")

\* for (offset = 0; offset < data_len; offset += sizeof(T))
\*   reinterpret_cast<T *>(ptr + offset)->~T();
RECURSIVE destroy_up_from(_, _, _, _)
destroy_up_from(offset, data_len, sizeof_t, ptr) ==
  IF offset >= data_len THEN <<>>
  ELSE <<EvDtor(offset \div sizeof_t, ptr)>>
       \o destroy_up_from(offset + sizeof_t, data_len, sizeof_t, ptr)

\* ut::delete_arr<T>(ptr)
delete_arr(ptr, sizeof_t, st) ==
  IF ptr = NULL THEN Returned(st, NULL)
  ELSE LET data_len == detail_datalen(ptr, st)
       IN  Returned(detail_free(ptr,
                      Did(st, destroy_up_from(0, data_len, sizeof_t, ptr))),
                    NULL)

\* ut::aligned_new_withkey<T>(key, alignment, args...)
aligned_new_withkey(key, alignment, sizeof_t, ctor_throws, thd, os_ok, st) ==
  LET al == detail_alloc("ut::aligned_alloc", sizeof_t, key, thd, os_ok, st)
      mem == al.ret
  IN  IF mem = NULL
      THEN Thrown([heap |-> al.heap, psi |-> al.psi, tr |-> al.tr],
                  "std::bad_alloc")
      ELSE LET st1 == Got(al, "aligned_new", sizeof_t)
           IN  IF ctor_throws
               THEN Thrown(Lost(Did(st1, <<EvOs("ctor_throws", 0, mem)>>), mem),
                           "T::T()")
               ELSE Returned(Did(st1, <<EvCtor(0, mem)>>), mem)

\* ut::aligned_delete(ptr)
aligned_delete(ptr, st) ==
  Returned(detail_free(ptr, Did(st, <<EvDtor(0, ptr)>>)), NULL)

\* ut::aligned_new_arr_withkey<T>(key, alignment, count)
aligned_new_arr_withkey(key, alignment, count, sizeof_t, throw_at, thd, os_ok, st) ==
  LET al == detail_alloc("ut::aligned_alloc", SizeT(sizeof_t * count), key,
                         thd, os_ok, st)
      mem == al.ret
  IN  IF mem = NULL
      THEN Thrown([heap |-> al.heap, psi |-> al.psi, tr |-> al.tr],
                  "std::bad_alloc")
      ELSE LET built == construct_count(0, SizeT(sizeof_t * count), sizeof_t,
                                        throw_at, mem)
               st1 == Did(Got(al, "aligned_new_arr", sizeof_t), built.tr)
           IN  IF ~built.thrown THEN Returned(st1, mem)
               ELSE Thrown(Lost(st1, mem), "T::T()")

\* ut::aligned_delete_arr<T>(ptr)
aligned_delete_arr(ptr, sizeof_t, st) ==
  LET data_len == detail_datalen(ptr, st)
  IN  Returned(detail_free(ptr,
                 Did(st, destroy_up_from(0, data_len, sizeof_t, ptr))),
               NULL)

(***************************************************************************)
(* ut::aligned_pointer<T, Alignment> and ut::aligned_array_pointer<T,      *)
(* Alignment>.  Each method maps the member ptr and the memory state to    *)
(* the effect of the call (r) and the value ptr has afterwards.            *)
(***************************************************************************)

\* ut_ad(EXPR): a debug assertion, checked in UNIV_DEBUG builds only
ut_ad(expr, univ_debug) == univ_debug => expr

\* What a call with undefined behaviour can do to the process.
Undefined == {"no effect", "SIGSEGV"}

\* The process ends inside the call: nothing of it is observed.
Aborted(ptr, st, what) == [r |-> Thrown(st, what), ptr |-> ptr]

\* aligned_pointer::alloc(args...) (key PSI_NOT_INSTRUMENTED) and
\* aligned_pointer::alloc_withkey(key, args...)
aligned_pointer_alloc_withkey(ptr, univ_debug, key, sizeof_t, ctor_throws, thd, os_ok, st) ==
  IF ~ut_ad(ptr = NULL, univ_debug) THEN Aborted(ptr, st, "ut_ad")
  ELSE LET r == aligned_new_withkey(key, 64, sizeof_t, ctor_throws, thd,
                                    os_ok, st)
       IN  [r |-> r, ptr |-> IF r.exc = NoExc THEN r.ret ELSE ptr]

\* aligned_pointer::dealloc(); ub is what destructing the object at nullptr
\* does in a build that does not check the assertion
aligned_pointer_dealloc(ptr, univ_debug, ub, st) ==
  IF ~ut_ad(ptr # NULL, univ_debug) THEN Aborted(ptr, st, "ut_ad")
  ELSE IF ptr = NULL
  THEN IF ub = "SIGSEGV" THEN Aborted(ptr, st, ub)
       ELSE [r |-> Returned(st, NULL), ptr |-> NULL]
  ELSE [r |-> aligned_delete(ptr, st), ptr |-> NULL]

\* aligned_pointer::~aligned_pointer()
aligned_pointer_dtor(ptr, univ_debug, st) ==
  IF ptr # NULL THEN aligned_pointer_dealloc(ptr, univ_debug, "no effect", st)
  ELSE [r |-> Returned(st, NULL), ptr |-> ptr]

\* aligned_array_pointer::alloc(size) (key PSI_NOT_INSTRUMENTED) and
\* aligned_array_pointer::alloc_withkey(key, size)
aligned_array_pointer_alloc_withkey(ptr, univ_debug, key, size, sizeof_t, throw_at, thd, os_ok, st) ==
  IF ~ut_ad(ptr = NULL, univ_debug) THEN Aborted(ptr, st, "ut_ad")
  ELSE LET r == aligned_new_arr_withkey(key, 64, size, sizeof_t, throw_at,
                                        thd, os_ok, st)
       IN  [r |-> r, ptr |-> IF r.exc = NoExc THEN r.ret ELSE ptr]

\* aligned_array_pointer::dealloc(); ub is what reading the length of the
\* block at nullptr does
aligned_array_pointer_dealloc(ptr, sizeof_t, ub, st) ==
  IF ptr = NULL
  THEN IF ub = "SIGSEGV" THEN Aborted(ptr, st, ub)
       ELSE [r |-> Returned(st, NULL), ptr |-> NULL]
  ELSE [r |-> aligned_delete_arr(ptr, sizeof_t, st), ptr |-> NULL]

\* aligned_array_pointer::~aligned_array_pointer()
aligned_array_pointer_dtor(ptr, sizeof_t, st) ==
  IF ptr # NULL THEN aligned_array_pointer_dealloc(ptr, sizeof_t, "no effect", st)
  ELSE [r |-> Returned(st, NULL), ptr |-> ptr]

(***************************************************************************)
(* The calls a program makes on ut_allocator instances.                    *)
(***************************************************************************)

Unresolved == -2   \* UT_NEW_THIS_FILE_PSI_INDEX not evaluated yet

Start == [heap |-> heap, psi |-> psi_bytes, tr |-> <<>>]

NElements == (0..MaxCount) \cup {max_size + 1}
\* How often the OS allocator refuses before it grants: at once, on the
\* last attempt of the retry loop, or never within the loop.
OsFail == {0, alloc_max_retries - 1, alloc_max_retries}
\* The refusals that make a difference to a call: none when the call does not
\* reach the OS allocator, all of them when no address is left to grant.
OsFailOf(reaches_os, needs_addr) ==
  IF ~reaches_os THEN {0}
  ELSE IF needs_addr /\ ~CanGrant(heap) THEN {alloc_max_retries}
  ELSE OsFail
OwnBlocks(kind) == {a \in Addrs : heap[a].kind = kind}

NoCall == [op |-> "none", m_key |-> PSI_NOT_INSTRUMENTED, ptr |-> NULL, n |-> 0,
           key |-> PSI_NOT_INSTRUMENTED, sizeof |-> 0, throw_at |-> NoThrow,
           ret |-> NULL, exc |-> NoExc]

Commit(c, r) ==
  /\ heap' = r.heap
  /\ psi_bytes' = r.psi
  /\ trace' = r.tr
  /\ call' = [c EXCEPT !.ret = r.ret, !.exc = r.exc]
  /\ UNCHANGED <<file, key_index, gcc5, handle, threads, net>>

Allocate ==
  \E c \in Callers, n \in NElements, key \in CallKeys, set_to_zero \in BOOLEAN :
   \E os_fail \in OsFailOf(n <= max_size, TRUE) :
    Commit([NoCall EXCEPT !.op = "allocate", !.m_key = c.m_key, !.n = n,
                          !.key = key, !.sizeof = sizeof_T],
           allocate(c.m_key, n, key, set_to_zero, c.thd, os_fail, Start))

\* Element counts at the limit of size_t: the largest that fits, the first
\* whose bytes plus header wrap, the first whose bytes wrap, the largest.
NElementsAtLimit ==
  {(SIZE_MAX - sizeof_ut_new_pfx_t) \div sizeof_T,
   (SIZE_MAX - sizeof_ut_new_pfx_t) \div sizeof_T + 1,
   SIZE_MAX \div sizeof_T + 1,
   SIZE_MAX}

AllocateAtLimit ==
  \E c \in Callers, n \in NElementsAtLimit, key \in CallKeys :
   \E os_fail \in OsFailOf(n <= max_size, TRUE) :
    Commit([NoCall EXCEPT !.op = "allocate", !.m_key = c.m_key, !.n = n,
                          !.key = key, !.sizeof = sizeof_T],
           allocate(c.m_key, n, key, FALSE, c.thd, os_fail, Start))

\* Element counts of large allocations: one element, a page of them and one
\* more, the largest whose bytes plus the reserved page fit in size_t after
\* rounding and before it, the first that wraps, the largest accepted, and
\* the two that are refused.
NElementsLarge ==
  {0, 1, CPU_PAGE_SIZE \div sizeof_T, CPU_PAGE_SIZE \div sizeof_T + 1,
   (SIZE_MAX + 1 - 2 * CPU_PAGE_SIZE) \div sizeof_T,
   (SIZE_MAX - CPU_PAGE_SIZE) \div sizeof_T,
   (SIZE_MAX - CPU_PAGE_SIZE) \div sizeof_T + 2,
   max_size, max_size + 1}

\* the pointers allocate_large has returned and that are still allocated
LargePointers == {PageBase(a) + CPU_PAGE_SIZE : a \in OwnBlocks("large")}

AllocateLarge ==
  \E c \in Callers, n \in NElementsLarge,
     os_ok \in IF CanGrant(heap) THEN BOOLEAN ELSE {FALSE} :
    Commit([NoCall EXCEPT !.op = "allocate_large", !.m_key = c.m_key, !.n = n,
                          !.sizeof = sizeof_T],
           allocate_large(c.m_key, n, c.thd, os_ok, Start))

DeallocateLarge ==
  \E c \in Callers, ptr \in LargePointers \cup {NULL} :
    Commit([NoCall EXCEPT !.op = "deallocate_large", !.m_key = c.m_key,
                          !.ptr = ptr, !.sizeof = sizeof_T],
           deallocate_large(ptr, Start))

LargePageSize ==
  \E ptr \in LargePointers :
    Commit([NoCall EXCEPT !.op = "large_page_size", !.ptr = ptr,
                          !.sizeof = sizeof_T],
           Returned(Start, large_page_size(ptr, Start)))

\* ut_allocator<T> instances, one per configured key; a bool is kept as 0 / 1.
Instances == {[m_key |-> k] : k \in PSI_keys}
Bool(b) == IF b THEN 1 ELSE 0

Compare ==
  \E lhs \in Instances, rhs \in Instances, op \in {"operator==", "operator!="} :
    /\ call' = [NoCall EXCEPT
                  !.op = op, !.m_key = lhs.m_key, !.key = rhs.m_key,
                  !.sizeof = sizeof_T,
                  !.ret = Bool(IF op = "operator==" THEN operator_eq(lhs, rhs)
                               ELSE operator_ne(lhs, rhs))]
    /\ trace' = <<>>
    /\ UNCHANGED <<file, key_index, gcc5, heap, psi_bytes, handle, threads, net>>

\* A caller that fills blocks of up to MaxResize elements with a pattern
\* and resizes them.
MaxResize == 2

AllocateSized ==
  \E c \in Callers, n \in 0..MaxResize :
    Commit([NoCall EXCEPT !.op = "allocate", !.m_key = c.m_key, !.n = n,
                          !.sizeof = sizeof_T],
           allocate(c.m_key, n, PSI_NOT_INSTRUMENTED, FALSE, c.thd, 0, Start))

\* memset(ptr, P, n_elements * sizeof(T)) by the owner of the block
WritePattern ==
  \E ptr \in OwnBlocks("ut_allocator") :
    /\ heap[ptr].pattern # heap[ptr].m_size - sizeof_ut_new_pfx_t
    /\ heap' = [heap EXCEPT
                  ![ptr].pattern = heap[ptr].m_size - sizeof_ut_new_pfx_t]
    /\ call' = [NoCall EXCEPT !.op = "memset", !.ptr = ptr,
                              !.sizeof = sizeof_T]
    /\ trace' = <<>>
    /\ UNCHANGED <<file, key_index, gcc5, psi_bytes, handle, threads, net>>

ReallocateSized ==
  \E c \in Callers, ptr \in OwnBlocks("ut_allocator"), n \in 0..MaxResize :
   \E os_fail \in OsFailOf(n # 0, FALSE),
      moved \in IF n = 0 \/ ~CanGrant(heap) THEN {FALSE} ELSE BOOLEAN :
    Commit([NoCall EXCEPT !.op = "reallocate", !.m_key = c.m_key, !.ptr = ptr,
                          !.n = n, !.sizeof = sizeof_T],
           reallocate(c.m_key, ptr, n, PSI_NOT_INSTRUMENTED, c.thd, os_fail,
                      moved, Start))

Deallocate ==
  \E c \in Callers, ptr \in OwnBlocks("ut_allocator") \cup {NULL} :
    Commit([NoCall EXCEPT !.op = "deallocate", !.m_key = c.m_key, !.ptr = ptr,
                          !.sizeof = sizeof_T],
           deallocate(ptr, Start))

Reallocate ==
  \E c \in Callers, ptr \in OwnBlocks("ut_allocator") \cup {NULL},
     n \in NElements, key \in CallKeys :
   \E os_fail \in OsFailOf(n # 0 /\ n <= max_size, ptr = NULL),
      moved \in IF ptr = NULL \/ n = 0 \/ n > max_size \/ ~CanGrant(heap)
                THEN {FALSE} ELSE BOOLEAN :
    Commit([NoCall EXCEPT !.op = "reallocate", !.m_key = c.m_key, !.ptr = ptr,
                          !.n = n, !.key = key, !.sizeof = sizeof_T],
           reallocate(c.m_key, ptr, n, key, c.thd, os_fail, moved, Start))

NewArray ==
  \E c \in Callers, n \in NElements, key \in CallKeys :
    \E os_fail \in OsFailOf(n <= max_size, TRUE),
       throw_at \in {NoThrow} \cup (0..(IF n <= MaxCount THEN n - 1 ELSE -1)) :
      Commit([NoCall EXCEPT !.op = "new_array", !.m_key = c.m_key, !.n = n,
                            !.key = key, !.sizeof = sizeof_T,
                            !.throw_at = throw_at],
             new_array(c.m_key, n, key, c.thd, os_fail, throw_at, Start))

DeleteArray ==
  \E c \in Callers, ptr \in OwnBlocks("ut_allocator") \cup {NULL} :
    Commit([NoCall EXCEPT !.op = "delete_array", !.m_key = c.m_key, !.ptr = ptr,
                          !.sizeof = sizeof_T],
           delete_array(ptr, Start))

\* A caller that asks for more than can be had: a resize beyond max_size()
\* or while the OS allocator refuses, next to resizes that succeed.
ReallocateRefused ==
  \E c \in Callers, ptr \in OwnBlocks("ut_allocator"),
     n \in {1, max_size, max_size + 1}, key \in CallKeys :
   \E os_fail \in OsFailOf(n <= max_size, FALSE) :
    Commit([NoCall EXCEPT !.op = "reallocate", !.m_key = c.m_key, !.ptr = ptr,
                          !.n = n, !.key = key, !.sizeof = sizeof_T],
           reallocate(c.m_key, ptr, n, key, c.thd, os_fail, FALSE, Start))

\* A caller that allocates one element at a time through every entry point
\* that reports an allocation, under each key argument.
KeyedAllocate ==
  \E c \in Callers, key \in CallKeys :
    /\ CanGrant(heap)
    /\ Commit([NoCall EXCEPT !.op = "allocate", !.m_key = c.m_key, !.n = 1,
                             !.key = key, !.sizeof = sizeof_T],
              allocate(c.m_key, 1, key, FALSE, c.thd, 0, Start))

KeyedReallocate ==
  \E c \in Callers, ptr \in OwnBlocks("ut_allocator"), key \in CallKeys,
     moved \in IF CanGrant(heap) THEN BOOLEAN ELSE {FALSE} :
    Commit([NoCall EXCEPT !.op = "reallocate", !.m_key = c.m_key, !.ptr = ptr,
                          !.n = 2, !.key = key, !.sizeof = sizeof_T],
           reallocate(c.m_key, ptr, 2, key, c.thd, 0, moved, Start))

KeyedNewArray ==
  \E c \in Callers, key \in CallKeys :
    /\ CanGrant(heap)
    /\ Commit([NoCall EXCEPT !.op = "new_array", !.m_key = c.m_key, !.n = 1,
                             !.key = key, !.sizeof = sizeof_T],
              new_array(c.m_key, 1, key, c.thd, 0, NoThrow, Start))

\* A caller that creates arrays of up to MaxArr elements with new_array or
\* allocate and hands them to delete_array.
ArrNewArray ==
  \E c \in Callers, n \in 0..MaxArr, key \in CallKeys :
    \E os_fail \in OsFailOf(TRUE, TRUE), throw_at \in {NoThrow} \cup (0..(n - 1)) :
      Commit([NoCall EXCEPT !.op = "new_array", !.m_key = c.m_key, !.n = n,
                            !.key = key, !.sizeof = sizeof_T,
                            !.throw_at = throw_at],
             new_array(c.m_key, n, key, c.thd, os_fail, throw_at, Start))

ArrAllocate ==
  \E c \in Callers, n \in 0..MaxArr, key \in CallKeys :
    \E os_fail \in OsFailOf(TRUE, TRUE) :
      Commit([NoCall EXCEPT !.op = "allocate", !.m_key = c.m_key, !.n = n,
                            !.key = key, !.sizeof = sizeof_T],
             allocate(c.m_key, n, key, FALSE, c.thd, os_fail, Start))

ArrDeleteArray ==
  \E c \in Callers, ptr \in OwnBlocks("ut_allocator") \cup {NULL} :
    Commit([NoCall EXCEPT !.op = "delete_array", !.m_key = c.m_key,
                          !.ptr = ptr, !.sizeof = sizeof_T],
           delete_array(ptr, Start))

\* The calls a program makes on namespace ut.  os_ok tells whether the OS
\* allocator grants within the retries of detail::Alloc_.
ObjThreads == {"thd1"}
ObjKeys == {"mem_key_other"}
OsOk == IF CanGrant(heap) THEN BOOLEAN ELSE {FALSE}
ThrowAt(granted, count) ==
  IF granted THEN {NoThrow} \cup (0..(count - 1)) ELSE {NoThrow}

NewWithkey ==
  \E key \in ObjKeys, sizeof_t \in ElemSizes, thd \in ObjThreads,
     os_ok \in OsOk :
   \E throw_at \in ThrowAt(os_ok, 1) :
    Commit([NoCall EXCEPT !.op = "new_withkey", !.n = 1, !.key = key,
                          !.sizeof = sizeof_t, !.throw_at = throw_at],
           new_withkey(key, sizeof_t, throw_at = 0, thd, os_ok, Start))

Delete ==
  \E ptr \in OwnBlocks("new") \cup {NULL} :
    Commit([NoCall EXCEPT !.op = "delete_", !.ptr = ptr, !.n = 1,
                          !.sizeof = IF ptr = NULL THEN 0 ELSE heap[ptr].elem],
           delete_(ptr, Start))

NewArrWithkeyTuples ==
  \E key \in ObjKeys, sizeof_t \in ElemSizes, n_args \in 0..MaxArr,
     thd \in ObjThreads, os_ok \in OsOk :
   \E throw_at \in ThrowAt(os_ok, n_args) :
    Commit([NoCall EXCEPT !.op = "new_arr_withkey", !.n = n_args, !.key = key,
                          !.sizeof = sizeof_t, !.throw_at = throw_at],
           new_arr_withkey_tuples(key, n_args, sizeof_t, throw_at, thd, os_ok,
                                  Start))

NewArrWithkeyCount ==
  \E key \in ObjKeys, sizeof_t \in ElemSizes, count \in 0..MaxArr,
     thd \in ObjThreads, os_ok \in OsOk :
   \E throw_at \in ThrowAt(os_ok, count) :
    Commit([NoCall EXCEPT !.op = "new_arr_withkey_count", !.n = count,
                          !.key = key, !.sizeof = sizeof_t,
                          !.throw_at = throw_at],
           new_arr_withkey_count(key, count, sizeof_t, throw_at, thd, os_ok,
                                 Start))

\* Array counts at the limit of size_t: the small ones, and the first
\* counts whose sizeof(T) * count does not fit.
CountsAtLimit(sizeof_t) ==
  {count \in (0..MaxArr)
             \cup {SIZE_MAX \div sizeof_t + 1 + k : k \in 0..MaxArr} :
     count <= SIZE_MAX}

NewArrWithkeyCountAtLimit ==
  \E key \in ObjKeys, sizeof_t \in ElemSizes, thd \in ObjThreads,
     os_ok \in OsOk, throw_at \in {NoThrow, 0} :
   \E count \in CountsAtLimit(sizeof_t) :
    Commit([NoCall EXCEPT !.op = "new_arr_withkey_count", !.n = count,
                          !.key = key, !.sizeof = sizeof_t,
                          !.throw_at = throw_at],
           new_arr_withkey_count(key, count, sizeof_t, throw_at, thd, os_ok,
                                 Start))

\* T is the type of the pointer the caller holds; nothing in delete_arr
\* ties it to the type the array was made of.
DeleteArr ==
  \E ptr \in OwnBlocks("new_arr") \cup {NULL}, sizeof_t \in ElemSizes :
    Commit([NoCall EXCEPT !.op = "delete_arr", !.ptr = ptr,
                          !.sizeof = sizeof_t],
           delete_arr(ptr, sizeof_t, Start))

AlignedNewWithkey ==
  \E key \in ObjKeys, alignment \in Alignments, sizeof_t \in ElemSizes,
     thd \in ObjThreads, os_ok \in OsOk :
   \E throw_at \in ThrowAt(os_ok, 1) :
    Commit([NoCall EXCEPT !.op = "aligned_new_withkey", !.n = 1, !.key = key,
                          !.sizeof = sizeof_t, !.throw_at = throw_at],
           aligned_new_withkey(key, alignment, sizeof_t, throw_at = 0, thd,
                               os_ok, Start))

AlignedDelete ==
  \E ptr \in OwnBlocks("aligned_new") :
    Commit([NoCall EXCEPT !.op = "aligned_delete", !.ptr = ptr, !.n = 1,
                          !.sizeof = heap[ptr].elem],
           aligned_delete(ptr, Start))

AlignedNewArrWithkey ==
  \E key \in ObjKeys, alignment \in Alignments, sizeof_t \in ElemSizes,
     count \in 0..MaxArr, thd \in ObjThreads, os_ok \in OsOk :
   \E throw_at \in ThrowAt(os_ok, count) :
    Commit([NoCall EXCEPT !.op = "aligned_new_arr_withkey", !.n = count,
                          !.key = key, !.sizeof = sizeof_t,
                          !.throw_at = throw_at],
           aligned_new_arr_withkey(key, alignment, count, sizeof_t, throw_at,
                                   thd, os_ok, Start))

AlignedDeleteArr ==
  \E ptr \in OwnBlocks("aligned_new_arr"), sizeof_t \in ElemSizes :
    Commit([NoCall EXCEPT !.op = "aligned_delete_arr", !.ptr = ptr,
                          !.sizeof = sizeof_t],
           aligned_delete_arr(ptr, sizeof_t, Start))

\* The calls a program makes on one owning wrapper, from its declaration
\* to the end of its scope.
NoHandle == [class |-> "none", ptr |-> NULL, sizeof |-> 0,
             univ_debug |-> FALSE, scope |-> "none"]

Handles ==
  {[class |-> c, ptr |-> NULL, sizeof |-> sz, univ_debug |-> d,
    scope |-> "open"] :
     c \in {"aligned_pointer", "aligned_array_pointer"}, sz \in ElemSizes,
     d \in BOOLEAN}

HandleKeys == ObjKeys \cup {PSI_NOT_INSTRUMENTED}
HandleOsOk == IF FreeAddrs(heap) # {} THEN BOOLEAN ELSE {FALSE}
Fatal == {"ut_ad", "SIGSEGV"}

CommitHandle(c, e, closes) ==
  /\ heap' = e.r.heap
  /\ psi_bytes' = e.r.psi
  /\ trace' = e.r.tr
  /\ call' = [c EXCEPT !.ret = e.r.ret, !.exc = e.r.exc]
  /\ handle' = [handle EXCEPT
                  !.ptr = e.ptr,
                  !.scope = IF e.r.exc \in Fatal THEN "aborted"
                            ELSE IF closes THEN "closed" ELSE @]
  /\ UNCHANGED <<file, key_index, gcc5, threads, net>>

PointerAlloc ==
  /\ handle.class = "aligned_pointer" /\ handle.scope = "open"
  /\ \E key \in HandleKeys, thd \in ObjThreads, os_ok \in HandleOsOk :
      \E throw_at \in ThrowAt(os_ok, 1) :
       CommitHandle([NoCall EXCEPT !.op = "aligned_pointer::alloc",
                                   !.ptr = handle.ptr, !.n = 1, !.key = key,
                                   !.sizeof = handle.sizeof,
                                   !.throw_at = throw_at],
                    aligned_pointer_alloc_withkey(handle.ptr, handle.univ_debug,
                      key, handle.sizeof, throw_at = 0, thd, os_ok, Start),
                    FALSE)

PointerDealloc ==
  /\ handle.class = "aligned_pointer" /\ handle.scope = "open"
  /\ \E ub \in IF handle.ptr = NULL /\ ~handle.univ_debug
                THEN Undefined ELSE {"no effect"} :
       CommitHandle([NoCall EXCEPT !.op = "aligned_pointer::dealloc",
                                   !.ptr = handle.ptr,
                                   !.sizeof = handle.sizeof],
                    aligned_pointer_dealloc(handle.ptr, handle.univ_debug, ub,
                                            Start),
                    FALSE)

PointerDestroy ==
  /\ handle.class = "aligned_pointer" /\ handle.scope = "open"
  /\ CommitHandle([NoCall EXCEPT !.op = "~aligned_pointer",
                                 !.ptr = handle.ptr, !.sizeof = handle.sizeof],
                  aligned_pointer_dtor(handle.ptr, handle.univ_debug, Start),
                  TRUE)

ArrayPointerAlloc ==
  /\ handle.class = "aligned_array_pointer" /\ handle.scope = "open"
  /\ \E key \in HandleKeys, size \in 0..MaxArr, thd \in ObjThreads,
        os_ok \in HandleOsOk :
      \E throw_at \in ThrowAt(os_ok, size) :
       CommitHandle([NoCall EXCEPT !.op = "aligned_array_pointer::alloc",
                                   !.ptr = handle.ptr, !.n = size, !.key = key,
                                   !.sizeof = handle.sizeof,
                                   !.throw_at = throw_at],
                    aligned_array_pointer_alloc_withkey(handle.ptr,
                      handle.univ_debug, key, size, handle.sizeof, throw_at,
                      thd, os_ok, Start),
                    FALSE)

ArrayPointerDealloc ==
  /\ handle.class = "aligned_array_pointer" /\ handle.scope = "open"
  /\ \E ub \in IF handle.ptr = NULL THEN Undefined ELSE {"no effect"} :
       CommitHandle([NoCall EXCEPT !.op = "aligned_array_pointer::dealloc",
                                   !.ptr = handle.ptr,
                                   !.sizeof = handle.sizeof],
                    aligned_array_pointer_dealloc(handle.ptr, handle.sizeof, ub,
                                                  Start),
                    FALSE)

ArrayPointerDestroy ==
  /\ handle.class = "aligned_array_pointer" /\ handle.scope = "open"
  /\ CommitHandle([NoCall EXCEPT !.op = "~aligned_array_pointer",
                                 !.ptr = handle.ptr, !.sizeof = handle.sizeof],
                  aligned_array_pointer_dtor(handle.ptr, handle.sizeof, Start),
                  TRUE)

(***************************************************************************)
(* net::dynamic_buffer(std::string &) of mysql/harness/net_ts/buffer.h, as *)
(* test_net_ts_buffer.cc exercises it.                                     *)
(***************************************************************************)

MaxBuf == 4     \* longest string under a dynamic buffer
MaxN == 2       \* largest n handed to prepare, commit and consume

NoNet == [class |-> "none"]
NoRegion == [off |-> 0, len |-> 0, valid |-> FALSE]

\* n times the character c
RECURSIVE Fill(_, _)
Fill(c, n) == IF n = 0 THEN "" ELSE c \o Fill(c, n - 1)

\* std::string::resize(n): cut to n characters or padded with char()
resize(v, n) ==
  IF n <= Len(v) THEN SubSeq(v, 1, n) ELSE v \o Fill("0", n - Len(v))

\* A prepare that appends to the string as it stands.
dynamic_buffer_prepare_after_uncommitted(db, n) ==
  [v |-> db.v \o Fill("0", n), size_ |-> db.size_,
   b |-> [off |-> Len(db.v), len |-> n, valid |-> TRUE]]

\* dynamic_string_buffer::prepare(n): the string is resized to size() + n,
\* the region returned is its last n characters
dynamic_buffer_prepare(db, n) ==
  [v |-> resize(db.v, db.size_ + n), size_ |-> db.size_,
   b |-> [off |-> db.size_, len |-> n, valid |-> TRUE]]

\* dynamic_string_buffer::commit(n)
dynamic_buffer_commit(db, n) ==
  LET size_ == db.size_ + (IF n < Len(db.v) - db.size_ THEN n
                           ELSE Len(db.v) - db.size_)
  IN  [v |-> resize(db.v, size_), size_ |-> size_, b |-> NoRegion]

\* dynamic_string_buffer::consume(n)
dynamic_buffer_consume(db, n) ==
  LET m == IF n < db.size_ THEN n ELSE db.size_
  IN  [v |-> SubSeq(db.v, m + 1, Len(db.v)), size_ |-> db.size_ - m,
       b |-> NoRegion]

\* std::memset(b.data(), c, b.size()) on the region prepare returned
memset(db, c) ==
  [db EXCEPT !.v = SubSeq(@, 1, db.b.off) \o Fill(c, db.b.len)
                     \o SubSeq(@, db.b.off + db.b.len + 1, Len(@))]

\* committed is what the caller has committed and not consumed, in order.
DynStep(op, n, db, committed) ==
  /\ net' = [class |-> "dynamic_buffer", v |-> db.v, size_ |-> db.size_,
             b |-> db.b, committed |-> committed]
  /\ call' = [NoCall EXCEPT !.op = op, !.n = n, !.ret = db.b.len]
  /\ trace' = <<>>
  /\ UNCHANGED <<file, key_index, gcc5, heap, psi_bytes, handle, threads>>

DynPrepare ==
  \E n \in 0..MaxN :
    /\ net.size_ + n <= MaxBuf
    /\ DynStep("prepare", n, dynamic_buffer_prepare(net, n), net.committed)

DynWrite ==
  \E c \in {"a", "b"} :
    /\ net.b.valid
    /\ net.b.len > 0
    /\ DynStep("memset", net.b.len, memset(net, c), net.committed)

DynCommit ==
  \E n \in 0..MaxN :
    LET db == dynamic_buffer_commit(net, n)
    IN  /\ net.class = "dynamic_buffer"
        /\ DynStep("commit", n, db,
                   net.committed \o SubSeq(net.v, net.size_ + 1, db.size_))

DynConsume ==
  \E n \in 0..MaxN :
    LET m == IF n < Len(net.committed) THEN n ELSE Len(net.committed)
    IN  /\ net.class = "dynamic_buffer"
        /\ DynStep("consume", n, dynamic_buffer_consume(net, n),
                   SubSeq(net.committed, m + 1, Len(net.committed)))

\* net::consuming_buffers over a sequence of buffers.  A prepared buffer is
\* the pair (data, size) of a const_buffer: data points off bytes into the
\* underlying buffer buf.
MaxConsumed == 11   \* largest total_consumed() followed
MaxPrepare == 7     \* largest n handed to prepare, besides 1024

\* prepared_buffers<BufferType>::max_size()
prepared_buffers_max_size == 16

\* the loop of consuming_buffers::prepare over the underlying buffers
RECURSIVE prepare_from(_, _, _, _, _)
prepare_from(buffers_, i, to_skip, max_bytes, to_consume) ==
  IF \/ max_bytes = 0
     \/ i > Len(buffers_)
     \/ Len(to_consume) >= prepared_buffers_max_size
  THEN to_consume
  ELSE IF Len(buffers_[i]) <= to_skip
  THEN prepare_from(buffers_, i + 1, to_skip - Len(buffers_[i]), max_bytes,
                    to_consume)
  ELSE LET avail == Len(buffers_[i]) - to_skip
           buf_size == IF avail < max_bytes THEN avail ELSE max_bytes
       IN  prepare_from(buffers_, i + 1, 0, max_bytes - buf_size,
                        Append(to_consume, [buf |-> i, off |-> to_skip,
                                            size |-> buf_size]))

\* A prepare that starts at the first byte whatever was consumed.
consuming_buffers_prepare_from_begin(cb, n) ==
  prepare_from(cb.buffers_, 1, 0, n, <<>>)

\* consuming_buffers::prepare(max_size)
consuming_buffers_prepare(cb, n) ==
  prepare_from(cb.buffers_, 1, cb.total_consumed_, n, <<>>)

\* consuming_buffers::consume(n)
consuming_buffers_consume(cb, n) ==
  [cb EXCEPT !.total_consumed_ = @ + n]

\* consuming_buffers::total_consumed()
total_consumed(cb) == cb.total_consumed_

CbStep(op, n, cb, prepared) ==
  /\ net' = [class |-> "consuming_buffers", buffers_ |-> cb.buffers_,
             total_consumed_ |-> cb.total_consumed_, prepared |-> prepared]
  /\ call' = [NoCall EXCEPT !.op = op, !.n = n, !.ret = Len(prepared)]
  /\ trace' = <<>>
  /\ UNCHANGED <<file, key_index, gcc5, heap, psi_bytes, handle, threads>>

CbPrepare ==
  \E n \in (0..MaxPrepare) \cup {1024} :
    /\ net.class = "consuming_buffers"
    /\ CbStep("prepare", n, net, consuming_buffers_prepare(net, n))

CbConsume ==
  \E n \in 0..MaxConsumed :
    /\ net.class = "consuming_buffers"
    /\ total_consumed(net) + n <= MaxConsumed
    /\ CbStep("consume", n, consuming_buffers_consume(net, n), <<>>)

\* Several threads inside calls on one ut_allocator instance.  A call is a
\* sequence of steps: the OS allocator call (with its retry loop, which
\* touches nothing but the thread's own stack), then each accounting call
\* with the header access that goes with it.  A thread holds one block at a
\* time.
Threads == {"thd1", "thd2"}
NoThreads == <<>>
Idle(m_key) == [pc |-> "idle", m_key |-> m_key, ptr |-> NULL, n |-> 0,
                key |-> PSI_NOT_INSTRUMENTED, own |-> {},
                booked |-> [a \in Addrs |-> <<>>]]
ThreadOsFail == IF FreeAddrs(heap) # {} THEN {0, alloc_max_retries}
                ELSE {alloc_max_retries}
TotalBytes(n) == SizeT(SizeT(n * sizeof_T) + sizeof_ut_new_pfx_t)

Step(t, c, st, th) ==
  /\ heap' = st.heap
  /\ psi_bytes' = st.psi
  /\ trace' = st.tr
  /\ call' = c
  /\ threads' = [threads EXCEPT ![t] = th]
  /\ UNCHANGED <<file, key_index, gcc5, handle, net>>

\* allocate(): the retry loop around ::malloc (ut0new.h:694-708)
ThreadMalloc ==
  \E t \in Threads, n \in 0..MaxCount, key \in CallKeys :
   \E os_fail \in ThreadOsFail :
    LET th == threads[t]
        grant == IF FreeAddrs(heap) # {} THEN Min(FreeAddrs(heap)) ELSE NULL
        os == os_retry("malloc", TotalBytes(n), grant, os_fail, 1)
        c == [NoCall EXCEPT !.op = "allocate", !.m_key = th.m_key, !.n = n,
                            !.key = key, !.sizeof = sizeof_T, !.ret = os.ptr]
    IN  /\ th.pc = "idle"
        /\ th.own = {}
        /\ IF os.ptr = NULL
           THEN Step(t, [c EXCEPT !.exc = "std::bad_alloc"],
                     Thrown(Did(Start, os.tr), "std::bad_alloc"), th)
           ELSE Step(t, c,
                     [Did(Start, os.tr) EXCEPT !.heap[os.ptr] =
                        [NoBlock EXCEPT !.kind = "ut_allocator",
                                        !.elem = sizeof_T]],
                     [th EXCEPT !.pc = "allocate_trace", !.ptr = os.ptr,
                                !.n = n, !.key = key])

\* allocate() / reallocate(): allocate_trace(total_bytes, key, pfx), return
ThreadAllocateTrace ==
  \E t \in Threads :
    LET th == threads[t]
        st == allocate_trace(th.m_key, TotalBytes(th.n), th.key, t, th.ptr,
                             Start)
        h == st.heap[th.ptr]
    IN  /\ th.pc = "allocate_trace"
        /\ Step(t, [NoCall EXCEPT !.op = "allocate_trace", !.m_key = th.m_key,
                                  !.ptr = th.ptr, !.n = th.n, !.key = th.key,
                                  !.sizeof = sizeof_T, !.ret = th.ptr],
                st,
                [th EXCEPT !.pc = "idle", !.ptr = NULL,
                           !.own = @ \cup {th.ptr},
                           !.booked[th.ptr] = <<h.m_key, h.m_size, h.m_owner>>])

\* deallocate(ptr): deallocate_trace(pfx)
ThreadDeallocateTrace ==
  \E t \in Threads :
    \E ptr \in threads[t].own :
      LET th == threads[t]
      IN  /\ th.pc = "idle"
          /\ Step(t, [NoCall EXCEPT !.op = "deallocate", !.m_key = th.m_key,
                                    !.ptr = ptr, !.sizeof = sizeof_T],
                  deallocate_trace(ptr, Start),
                  [th EXCEPT !.pc = "free", !.ptr = ptr, !.own = @ \ {ptr}])

\* deallocate(ptr): free(pfx), return
ThreadFree ==
  \E t \in Threads :
    LET th == threads[t]
    IN  /\ th.pc = "free"
        /\ Step(t, [NoCall EXCEPT !.op = "free", !.m_key = th.m_key,
                                  !.ptr = th.ptr, !.sizeof = sizeof_T],
                os_free(th.ptr, Start),
                [th EXCEPT !.pc = "idle", !.ptr = NULL,
                           !.booked[th.ptr] = <<>>])

\* reallocate(ptr, n_elements, key): the retry loop around ::realloc
\* (ut0new.h:784-804)
ThreadRealloc ==
  \E t \in Threads, n \in 1..MaxCount, key \in CallKeys :
   \E ptr \in threads[t].own, os_fail \in {0, alloc_max_retries},
      moved \in IF FreeAddrs(heap) # {} THEN BOOLEAN ELSE {FALSE} :
    LET th == threads[t]
        grant == IF moved THEN Min(FreeAddrs(heap)) ELSE ptr
        os == os_retry("realloc", TotalBytes(n), grant, os_fail, 1)
        c == [NoCall EXCEPT !.op = "reallocate", !.m_key = th.m_key,
                            !.ptr = ptr, !.n = n, !.key = key,
                            !.sizeof = sizeof_T, !.ret = os.ptr]
        kept == [heap[ptr] EXCEPT
                   !.pattern = IF @ < n * sizeof_T THEN @ ELSE n * sizeof_T]
    IN  /\ th.pc = "idle"
        /\ IF os.ptr = NULL
           THEN Step(t, c, Did(Start, os.tr), th)
           ELSE Step(t, c,
                     [Did(Start, os.tr) EXCEPT !.heap =
                        [[@ EXCEPT ![ptr] = NoBlock] EXCEPT ![os.ptr] = kept]],
                     [th EXCEPT !.pc = "deallocate_trace", !.ptr = os.ptr,
                                !.n = n, !.key = key, !.own = @ \ {ptr},
                                !.booked = [[@ EXCEPT ![ptr] = <<>>]
                                              EXCEPT ![os.ptr] = th.booked[ptr]]])

\* reallocate(): deallocate_trace(pfx_new)
ThreadRetraceFree ==
  \E t \in Threads :
    LET th == threads[t]
    IN  /\ th.pc = "deallocate_trace"
        /\ Step(t, [NoCall EXCEPT !.op = "deallocate_trace",
                                  !.m_key = th.m_key, !.ptr = th.ptr,
                                  !.n = th.n, !.key = th.key,
                                  !.sizeof = sizeof_T],
                deallocate_trace(th.ptr, Start),
                [th EXCEPT !.pc = "allocate_trace"])

InitMemory ==
  /\ heap = [a \in Addrs |-> NoBlock]
  /\ psi_bytes = [k \in PSI_keys |-> 0]
  /\ call = NoCall
  /\ trace = <<>>
  /\ threads = NoThreads
  /\ net = NoNet
  /\ gcc5 = [index |-> 0, key |-> Unevaluated]

Init ==
  /\ file = "ut0new.h"
  /\ key_index = Unresolved
  /\ InitMemory
  /\ handle = NoHandle

InitHandle ==
  /\ file = "ut0new.h"
  /\ key_index = Unresolved
  /\ InitMemory
  /\ handle \in Handles

NextHandle ==
  \/ PointerAlloc \/ PointerDealloc \/ PointerDestroy
  \/ ArrayPointerAlloc \/ ArrayPointerDealloc \/ ArrayPointerDestroy

SpecHandle == InitHandle /\ [][NextHandle]_vars

Next == Allocate \/ Deallocate \/ Reallocate \/ NewArray \/ DeleteArray

Spec == Init /\ [][Next]_vars

NextObj ==
  \/ NewWithkey \/ Delete
  \/ NewArrWithkeyTuples \/ NewArrWithkeyCount \/ DeleteArr
  \/ AlignedNewWithkey \/ AlignedDelete
  \/ AlignedNewArrWithkey \/ AlignedDeleteArr

SpecObj == Init /\ [][NextObj]_vars

InitThreads ==
  /\ file = "ut0new.h"
  /\ key_index = Unresolved
  /\ heap = [a \in Addrs |-> NoBlock]
  /\ psi_bytes = [k \in PSI_keys |-> 0]
  /\ call = NoCall
  /\ trace = <<>>
  /\ gcc5 = [index |-> 0, key |-> Unevaluated]
  /\ handle = NoHandle
  /\ net = NoNet
  /\ \E c \in Callers : threads = [t \in Threads |-> Idle(c.m_key)]

NextThreads ==
  \/ ThreadMalloc \/ ThreadAllocateTrace
  \/ ThreadDeallocateTrace \/ ThreadFree
  \/ ThreadRealloc \/ ThreadRetraceFree

SpecThreads == InitThreads /\ [][NextThreads]_vars

\* std::string s (empty or with content); auto dyn_buf = net::dynamic_buffer(s)
InitDyn ==
  /\ file = "ut0new.h"
  /\ key_index = Unresolved
  /\ heap = [a \in Addrs |-> NoBlock]
  /\ psi_bytes = [k \in PSI_keys |-> 0]
  /\ call = NoCall
  /\ trace = <<>>
  /\ gcc5 = [index |-> 0, key |-> Unevaluated]
  /\ handle = NoHandle
  /\ threads = NoThreads
  /\ \E s \in {"", "aabb"} :
       net = [class |-> "dynamic_buffer", v |-> s, size_ |-> Len(s),
              b |-> NoRegion, committed |-> s]

NextDyn == DynPrepare \/ DynWrite \/ DynCommit \/ DynConsume

SpecDyn == InitDyn /\ [][NextDyn]_vars

\* std::list<std::string> bufs; net::consuming_buffers<T, net::const_buffer>
\* buf_seq(bufs)
InitCb ==
  /\ file = "ut0new.h"
  /\ key_index = Unresolved
  /\ heap = [a \in Addrs |-> NoBlock]
  /\ psi_bytes = [k \in PSI_keys |-> 0]
  /\ call = NoCall
  /\ trace = <<>>
  /\ gcc5 = [index |-> 0, key |-> Unevaluated]
  /\ handle = NoHandle
  /\ threads = NoThreads
  /\ \E bufs \in {<<"0123", "45", "6789">>, <<"01", "", "2">>} :
       net = [class |-> "consuming_buffers", buffers_ |-> bufs,
              total_consumed_ |-> 0, prepared |-> <<>>]

NextCb == CbPrepare \/ CbConsume

SpecCb == InitCb /\ [][NextCb]_vars

NextArr == ArrNewArray \/ ArrAllocate \/ ArrDeleteArray

SpecArr == Init /\ [][NextArr]_vars

\* The accounting backend records every key, or one instrument only.
InitKeyed ==
  /\ file = "ut0new.h"
  /\ key_index = Unresolved
  /\ heap = [a \in Addrs |-> NoBlock]
  /\ \E recorded \in {PSI_keys, {"mem_key_std"}, {"mem_key_other"}} :
       psi_bytes = [k \in recorded |-> 0]
  /\ call = NoCall
  /\ trace = <<>>
  /\ gcc5 = [index |-> 0, key |-> Unevaluated]
  /\ handle = NoHandle
  /\ threads = NoThreads
  /\ net = NoNet

NextKeyed ==
  \/ KeyedAllocate \/ KeyedReallocate \/ KeyedNewArray \/ AllocateLarge
  \/ Deallocate \/ DeallocateLarge

SpecKeyed == InitKeyed /\ [][NextKeyed]_vars

NextCount == NewArrWithkeyCountAtLimit \/ DeleteArr

SpecCount == Init /\ [][NextCount]_vars

NextRefused == KeyedAllocate \/ ReallocateRefused \/ Deallocate

SpecRefused == Init /\ [][NextRefused]_vars

NextLarge == AllocateLarge \/ DeallocateLarge \/ LargePageSize

SpecLarge == Init /\ [][NextLarge]_vars

NextContent == AllocateSized \/ WritePattern \/ ReallocateSized \/ Deallocate

SpecContent == Init /\ [][NextContent]_vars

\* A container that asks ut_allocator for element counts up to the limit
\* and compares allocator instances.
NextLimit == Allocate \/ AllocateAtLimit \/ Deallocate \/ Compare

SpecLimit == Init /\ [][NextLimit]_vars

\* A program that uses the entry points documented to succeed or fail
\* loudly, of ut_allocator and of namespace ut side by side, and releases
\* what it got from them.
NextLoud ==
  \/ Allocate \/ Deallocate
  \/ NewWithkey \/ Delete
  \/ NewArrWithkeyTuples \/ NewArrWithkeyCount \/ DeleteArr

SpecLoud == Init /\ [][NextLoud]_vars

(***************************************************************************)
(* Compiling a translation unit: UT_NEW_THIS_FILE_PSI_INDEX is evaluated   *)
(* for the unit's MY_BASENAME.                                             *)
(***************************************************************************)

InitKey ==
  /\ file \in FileNames
  /\ key_index = Unresolved
  /\ InitMemory
  /\ handle = NoHandle

ResolveCallSite ==
  /\ key_index = Unresolved
  /\ key_index' = ut_new_get_key_by_file(file)
  /\ UNCHANGED <<file, gcc5, heap, psi_bytes, call, trace, handle, threads, net>>

\* The gcc 5 build: UT_NEW_THIS_FILE_PSI_KEY is
\* ut_new_get_key_by_file(MY_BASENAME).
ResolveCallSiteGcc5 ==
  /\ gcc5.key = Unevaluated
  /\ gcc5' = ut_new_get_key_by_file_gcc5(file)
  /\ UNCHANGED <<file, key_index, heap, psi_bytes, call, trace, handle, threads, net>>

NextKey == ResolveCallSite \/ ResolveCallSiteGcc5

SpecKey == InitKey /\ [][NextKey]_vars

(***************************************************************************)
(* Properties of ut_allocator, checked under Spec.                         *)
(***************************************************************************)

\* C1: balanced accounting.  Once every block handed out by allocate /
\* reallocate / new_array has been deallocated, the bytes booked with
\* memory_alloc minus the bytes booked with memory_free are zero for every
\* key, whichever ut_allocator instance did the deallocation.
BalancedAccounting ==
  Live(heap) = {} => \A k \in PSI_keys : psi_bytes[k] = 0

\* A block booked under mem_key_std has just been deallocated through the
\* instance whose m_key is PSI_NOT_INSTRUMENTED, and nothing is outstanding.
BalancedAccountingWitness ==
  /\ call.op = "deallocate"
  /\ call.m_key = PSI_NOT_INSTRUMENTED
  /\ Live(heap) = {}
  /\ \E i \in 1..Len(trace) :
       trace[i].ev = "memory_free" /\ trace[i].key = "mem_key_std"

\* C2: a successful reallocate(ptr, n, key) with ptr non-null and n > 0 makes
\* exactly two accounting calls: first one memory_free carrying the key, size
\* and owner recorded in the old block's header, then one memory_alloc with
\* the new total size n * sizeof(T) + sizeof(ut_new_pfx_t).
ReallocateRetiresThenInstalls ==
  [][(/\ call'.op = "reallocate"
      /\ call'.ptr # NULL
      /\ call'.n > 0
      /\ call'.ret # NULL)
     => LET old == heap[call'.ptr]
            acc == AccountingCalls(trace')
        IN  /\ Len(acc) = 2
            /\ acc[1].ev = "memory_free"
            /\ acc[1].key = old.m_key
            /\ acc[1].size = old.m_size
            /\ acc[1].owner = old.m_owner
            /\ acc[2].ev = "memory_alloc"
            /\ acc[2].size = call'.n * sizeof_T + sizeof_ut_new_pfx_t]_vars

\* A reallocate that changed the size of a block and re-booked it under
\* another key and owner has just returned.
ReallocateWitness ==
  /\ call.op = "reallocate"
  /\ call.ptr # NULL
  /\ call.n > 0
  /\ call.ret # NULL
  /\ LET acc == AccountingCalls(trace)
     IN  /\ Len(acc) = 2
         /\ acc[1].key # acc[2].key
         /\ acc[1].size # acc[2].size
         /\ acc[1].owner # acc[2].owner

\* C6: new_array(n, key) does not throw; it returns NULL when the allocation
\* fails or when a constructor throws.
NewArrayDoesNotThrow ==
  call.op = "new_array" => call.exc = NoExc

(***************************************************************************)
(* Properties of the call-site lookup, checked under SpecKey.              *)
(***************************************************************************)

\* p is a prefix of s
IsPrefix(p, s) == Len(p) <= Len(s) /\ SubSeq(s, 1, Len(p)) = p

\* the file base name with the extension stripped
Identifier(f) ==
  LET dots == {i \in 1..Len(f) : SubSeq(f, i, i) = "."}
  IN  IF dots = {} THEN f ELSE SubSeq(f, 1, Min(dots) - 1)

\* index of the first table entry that satisfies Match, -1 when none does
FirstEntry(Match(_)) ==
  LET hits == {i \in 1..n_auto : Match(auto_event_names[i])}
  IN  IF hits = {} THEN -1 ELSE Min(hits) - 1

\* C9 as stated: the lookup returns the first entry, in table order, whose
\* name is a prefix of the identifier, and the not-instrumented sentinel when
\* no entry's name is a prefix of it.
ResolvesToFirstEntryPrefixingIdentifier ==
  key_index # Unresolved =>
    LET id == Identifier(file)
        NamePrefixesId(name) == IsPrefix(name, id)
    IN  key_index = FirstEntry(NamePrefixesId)

\* C9 (amended): the lookup returns the first entry, in table order, of whose
\* name the identifier is a prefix, and the not-instrumented sentinel when
\* the identifier is a prefix of no entry's name; an identifier that is longer
\* than every entry beginning like it ("buf0buf_extra") is not instrumented.
ResolvesToFirstEntryTheIdentifierPrefixes ==
  key_index # Unresolved =>
    LET id == Identifier(file)
        IdPrefixesName(name) == IsPrefix(id, name)
        index == FirstEntry(IdPrefixesName)
    IN  /\ key_index = index
        /\ UT_NEW_THIS_FILE_PSI_KEY(key_index) =
             IF index = -1 THEN PSI_NOT_INSTRUMENTED
             ELSE auto_event_keys[index + 1]

\* "buf0buf_extra" has been looked up and found not instrumented.
LongerIdentifierWitness ==
  /\ file = "buf0buf_extra"
  /\ key_index = -1
  /\ UT_NEW_THIS_FILE_PSI_KEY(key_index) = PSI_NOT_INSTRUMENTED

\* C10: exact match.  For every entry e of auto_event_names, the identifier
\* equal to e's name, with or without a trailing extension, resolves to e's
\* own index and key, not to another entry sharing a prefix with it.
ExactMatchResolvesToOwnEntry ==
  key_index # Unresolved =>
    \A i \in 1..n_auto :
      Identifier(file) = auto_event_names[i] =>
        /\ key_index = i - 1
        /\ UT_NEW_THIS_FILE_PSI_KEY(key_index) = auto_event_keys[i]

\* "buf0buf.cc" has resolved to the entry "buf0buf", which follows "buf" and
\* "buf0buddy" in the table.
ExactMatchWitness ==
  /\ file = "buf0buf.cc"
  /\ key_index >= 0
  /\ auto_event_names[key_index + 1] = "buf0buf"
  /\ auto_event_names[key_index - 1] = "buf"

\* C12: the recursive variant yields auto_event_keys[i] exactly when the loop
\* variant yields index i and PSI_NOT_INSTRUMENTED exactly when the loop
\* variant yields -1, and both strip the extension at the first '.' alike.
VariantsAgree ==
  /\ ut_len_without_extension_gcc5(file, 0) = ut_len_without_extension(file)
  /\ (key_index # Unresolved /\ gcc5.key # Unevaluated) =>
       /\ gcc5.key = UT_NEW_THIS_FILE_PSI_KEY(key_index)
       /\ \A i \in 0..(n_auto - 1) :
            gcc5.key = auto_event_keys[i + 1] <=> key_index = i
       /\ gcc5.key = "PSI_NOT_INSTRUMENTED" <=> key_index = -1

VariantsAgreeWitness ==
  /\ file = "buf0buf.cc"
  /\ key_index = 10
  /\ gcc5 = [index |-> 10, key |-> "memory/innodb/buf0buf"]

\* The characters of file names, in ascending byte value.
ByteOrder == "-.0123456789_abcdefghijklmnopqrstuvwxyz"
ByteOf(c) == CHOOSE i \in 1..Len(ByteOrder) : SubSeq(ByteOrder, i, i) = c

\* a < b byte-wise, as strcmp(a, b) < 0, comparing from the i-th character
RECURSIVE less_from(_, _, _)
less_from(a, b, i) ==
  IF i > Len(a) THEN i <= Len(b)
  ELSE IF i > Len(b) THEN FALSE
  ELSE IF SubSeq(a, i, i) = SubSeq(b, i, i) THEN less_from(a, b, i + 1)
  ELSE ByteOf(SubSeq(a, i, i)) < ByteOf(SubSeq(b, i, i))

\* C11: auto_event_names is alphabetically sorted: in the table a call site
\* is resolved against, every entry compares byte-wise less than the entry
\* after it.
AutoEventNamesSorted ==
  key_index # Unresolved =>
    \A i \in 1..(n_auto - 1) :
      less_from(auto_event_names[i], auto_event_names[i + 1], 1)

IsOsAttempt(e) == e.ev \in {"malloc", "calloc", "realloc"}
IsRetryStep(e) == IsOsAttempt(e) \/ e.ev = "sleep"

\* C15: one call of allocate or reallocate calls the OS allocator at most
\* alloc_max_retries times, stops at the first attempt that succeeds, sleeps
\* one second exactly between a failed attempt and the next one, never after
\* the last, and gives up only after alloc_max_retries failed attempts.
BoundedRetry ==
  call.op \in {"allocate", "reallocate"} =>
    LET steps == SelectSeq(trace, IsRetryStep)
        attempts == SelectSeq(trace, IsOsAttempt)
    IN  /\ Len(attempts) <= alloc_max_retries
        /\ \A i \in 1..(Len(attempts) - 1) : attempts[i].ptr = NULL
        /\ steps # <<>> => Len(steps) = 2 * Len(attempts) - 1
        /\ \A i \in 1..Len(steps) :
             IF i % 2 = 1 THEN IsOsAttempt(steps[i])
             ELSE steps[i] = EvSleep
        /\ (attempts # <<>> /\ attempts[Len(attempts)].ptr = NULL) =>
             Len(attempts) = alloc_max_retries

BoundedRetryWitness ==
  /\ call.op = "reallocate"
  /\ call.ptr # NULL
  /\ Len(SelectSeq(trace, IsOsAttempt)) = alloc_max_retries
  /\ Len(SelectSeq(trace, IsRetryStep)) = 2 * alloc_max_retries - 1
  /\ call.ret # NULL

\* C17: reallocate with a null ptr behaves as allocate(n_elements) under the
\* given key, for every n_elements; with n_elements = 0 and a non-null ptr
\* it deallocates the block, retiring its record once, and returns null.
ReallocateSpecialCases ==
  [][call'.op = "reallocate" =>
       /\ call'.ptr = NULL =>
            \E c \in Callers, os_fail \in OsFail :
              LET r == allocate(call'.m_key, call'.n, call'.key, FALSE,
                                c.thd, os_fail, Start)
              IN  /\ heap' = r.heap
                  /\ psi_bytes' = r.psi
                  /\ trace' = r.tr
                  /\ call'.ret = r.ret
                  /\ call'.exc = r.exc
       /\ (call'.ptr # NULL /\ call'.n = 0) =>
            /\ call'.ret = NULL
            /\ call'.exc = NoExc
            /\ heap' = [heap EXCEPT ![call'.ptr] = NoBlock]
            /\ AccountingCalls(trace') =
                 <<Ev("memory_free", heap[call'.ptr].m_key,
                      heap[call'.ptr].m_size, heap[call'.ptr].m_owner,
                      call'.ptr)>>]_vars

\* C18: reallocate fails silently: whatever ptr and n_elements are, when the
\* memory cannot be obtained it returns a null pointer and does not throw.
ReallocateFailsSilently ==
  call.op = "reallocate" =>
    /\ call.exc = NoExc
    /\ (\/ call.n * sizeof_T + sizeof_ut_new_pfx_t > SIZE_MAX
        \/ LET attempts == SelectSeq(trace, IsOsAttempt)
           IN  attempts # <<>> /\ attempts[Len(attempts)].ptr = NULL)
         => call.ret = NULL

(***************************************************************************)
(* Properties of the object and array lifecycle, checked under SpecObj.    *)
(***************************************************************************)

IsLifecycle(e) == e.ev \in {"ctor", "ctor_throws", "dtor", "free", "throw"}
\* what a call did to objects and to the block, as <<event, element index>>
Lifecycle(tr) ==
  LET evs == SelectSeq(tr, IsLifecycle)
  IN  [i \in 1..Len(evs) |-> <<evs[i].ev, evs[i].size>>]
Ascending(ev, n) == [i \in 1..n |-> <<ev, i - 1>>]
Descending(ev, n) == [i \in 1..n |-> <<ev, n - i>>]
CtorThrew(tr) == \E i \in 1..Len(tr) : tr[i].ev = "ctor_throws"
\* constructors 0..k-1, the throwing constructor of element k, destructors
\* k-1..0, one release of the block, and only then the exception
RolledBack(k) ==
  Ascending("ctor", k) \o << <<"ctor_throws", k>> >> \o Descending("dtor", k)
  \o << <<"free", 0>>, <<"throw", 0>> >>
NothingOutstanding == heap' = heap /\ psi_bytes' = psi_bytes

NewWithkeyReleasesOnThrow ==
  [][(call'.op = "new_withkey" /\ CtorThrew(trace')) =>
       /\ Lifecycle(trace') =
            << <<"ctor_throws", 0>>, <<"free", 0>>, <<"throw", 0>> >>
       /\ call'.exc = "T::T()"
       /\ NothingOutstanding]_vars

NewWithkeyWitness ==
  /\ call.op = "new_withkey"
  /\ call.throw_at = 0
  /\ call.exc = "T::T()"
  /\ CtorThrew(trace)

\* C5: when a constructor throws in aligned_new_withkey or in
\* aligned_new_arr_withkey, the elements already constructed are destructed
\* in reverse order and the aligned block is released before the exception
\* propagates.
AlignedRollback ==
  [][(/\ call'.op \in {"aligned_new_withkey", "aligned_new_arr_withkey"}
      /\ CtorThrew(trace')) =>
       /\ Lifecycle(trace') = RolledBack(call'.throw_at)
       /\ NothingOutstanding]_vars

\* recorded user bytes of a block
UserBytes(h) ==
  h.m_size - (IF h.kind = "ut_allocator" THEN sizeof_ut_new_pfx_t
              ELSE pfs_overhead)

\* C7: delete_arr and aligned_delete_arr on a non-null array destruct the
\* elements from the highest index down to index 0 and release the block
\* after the last destructor.
ArrayDestructionInReverseOrder ==
  [][(/\ call'.op \in {"delete_arr", "aligned_delete_arr"}
      /\ call'.ptr # NULL
      /\ heap[call'.ptr].elem = call'.sizeof) =>
       Lifecycle(trace') =
         Descending("dtor", UserBytes(heap[call'.ptr]) \div call'.sizeof)
         \o << <<"free", 0>> >>]_vars

\* C8: when the recorded user size of the block is not a multiple of
\* sizeof(T), delete_arr and delete_array fail loudly and run no destructor.
ArrayDestructionFailsLoudlyOnMiscount ==
  [][(/\ call'.op \in {"delete_arr", "delete_array"}
      /\ call'.ptr # NULL
      /\ UserBytes(heap[call'.ptr]) % call'.sizeof # 0) =>
       /\ call'.exc # NoExc
       /\ ~ \E i \in 1..Len(trace') : trace'[i].ev = "dtor"]_vars

(***************************************************************************)
(* Properties of the entry points that succeed or fail loudly, checked     *)
(* under SpecLoud.                                                         *)
(***************************************************************************)

IsRawAlloc(e) == e.ev \in {"malloc", "calloc", "ut::malloc"}
\* the raw allocation of the call was tried and yielded nullptr
RawAllocationNull(tr) ==
  /\ \E i \in 1..Len(tr) : IsRawAlloc(tr[i])
  /\ \A i \in 1..Len(tr) : IsRawAlloc(tr[i]) => tr[i].ptr = NULL
IsConstruction(e) == e.ev \in {"ctor", "ctor_throws"}

OverflowProtection ==
  call.op = "allocate" =>
    LET bytes == call.n * sizeof_T + sizeof_ut_new_pfx_t
    IN  /\ bytes > SIZE_MAX =>
             /\ call.exc = "std::bad_array_new_length"
             /\ trace = <<EvThrow("std::bad_array_new_length")>>
        /\ bytes <= SIZE_MAX =>
             /\ call.exc # "std::bad_array_new_length"
             /\ \A i \in 1..Len(trace) :
                  (IsRawAlloc(trace[i]) \/ IsAccounting(trace[i]))
                    => trace[i].size = bytes
             /\ call.ret # NULL => heap[call.ret].m_size = bytes

OverflowProtectionWitness ==
  /\ call.op = "allocate"
  /\ SizeT(call.n * sizeof_T) < call.n
  /\ call.exc = "std::bad_array_new_length"

\* C16: two ut_allocator<T> instances of the same element type compare
\* equal whatever their keys: a == b is true and a != b is false.
InstancesAlwaysEqual ==
  /\ call.op = "operator==" => call.ret = Bool(TRUE)
  /\ call.op = "operator!=" => call.ret = Bool(FALSE)

InstancesAlwaysEqualWitness ==
  /\ call.op = "operator!="
  /\ call.m_key # call.key
  /\ call.ret = Bool(FALSE)

(***************************************************************************)
(* Properties of the contents of blocks, checked under SpecContent.        *)
(***************************************************************************)

\* C19: after a successful reallocate from s1 to s2 user bytes, the user
\* bytes [0, min(s1, s2)) of the returned block are those of the old block:
\* what the caller had written there is still there, and re-writing the
\* header has touched none of it.
ReallocatePreservesContent ==
  [][(call'.op = "reallocate" /\ call'.ptr # NULL /\ call'.ret # NULL) =>
       LET s1 == UserBytes(heap[call'.ptr])
           s2 == UserBytes(heap'[call'.ret])
           kept == IF s1 < s2 THEN s1 ELSE s2
           old == heap[call'.ptr].pattern
       IN  /\ s2 = call'.n * sizeof_T
           /\ heap'[call'.ret].pattern = IF old < kept THEN old ELSE kept]_vars

ReallocatePreservesContentWitness ==
  /\ call.op = "reallocate"
  /\ call.ptr # NULL
  /\ call.ret # NULL
  /\ heap[call.ret].pattern > 0
  /\ heap[call.ret].pattern < UserBytes(heap[call.ret])

(***************************************************************************)
(* Properties of the owning wrappers, checked under SpecHandle.            *)
(***************************************************************************)

\* the blocks a wrapper has acquired and that have not been released
Held == {a \in Addrs : heap[a].kind \in {"aligned_new", "aligned_new_arr"}}

IsHandleAlloc(c) ==
  c.op \in {"aligned_pointer::alloc", "aligned_array_pointer::alloc"}

\* C20: over any sequence of alloc / alloc_withkey / dealloc calls on an
\* aligned_pointer or aligned_array_pointer the wrapper owns at most one
\* allocation, an alloc on a wrapper that holds one is rejected by the guard,
\* and once the destructor has returned every allocation the wrapper
\* acquired has been released.
ScopedRelease ==
  /\ [](Cardinality(Held) <= 1)
  /\ [](handle.scope = "closed" => Held = {})
  /\ [][(IsHandleAlloc(call') /\ handle.ptr # NULL) => call'.exc = "ut_ad"]_vars

(***************************************************************************)
(* Properties of the large allocations, checked under SpecLarge.           *)
(***************************************************************************)

\* what the OS answered the os_mem_alloc_large call of the last call with
MappedBy(tr) == SelectSeq(tr, LAMBDA e : e.ev = "mapped")
RequestedBy(tr) == SelectSeq(tr, LAMBDA e : e.ev = "os_mem_alloc_large")

\* C21: a pointer p that allocate_large(n) returns is one CPU_PAGE_SIZE above
\* the page-aligned block the OS granted, large_page_size(p) is the granted
\* bytes less CPU_PAGE_SIZE and at least n * sizeof(T), and
\* deallocate_large(p) makes one memory_free call with the size reported to
\* memory_alloc and releases the block at its base with the granted bytes.
PagePathRoundTrip ==
  /\ [](call.op = "allocate_large" /\ call.ret # NULL =>
          /\ Len(MappedBy(trace)) = 1
          /\ LET os == MappedBy(trace)[1]
                 booked == AccountingCalls(trace)
             IN  /\ os.ptr % CPU_PAGE_SIZE = 0
                 /\ call.ret = os.ptr + CPU_PAGE_SIZE
                 /\ large_page_size(call.ret, Start) = os.size - CPU_PAGE_SIZE
                 /\ large_page_size(call.ret, Start) >= call.n * sizeof_T
                 /\ Len(booked) = 1
                 /\ booked[1].ev = "memory_alloc"
                 /\ booked[1].size = os.size)
  /\ [][call'.op = "deallocate_large" /\ call'.ptr # NULL =>
          LET pfx == RegionOf(call'.ptr - CPU_PAGE_SIZE)
              granted == heap[pfx].mapped
          IN  /\ Len(trace') = 2
              /\ trace'[1] = Ev("memory_free", heap[pfx].m_key, granted,
                                heap[pfx].m_owner, pfx)
              /\ trace'[2] = EvOs("os_mem_free_large", granted,
                                  call'.ptr - CPU_PAGE_SIZE)
              /\ heap'[pfx] = NoBlock]_vars

\* C29: for every n_elements that allocate_large accepts, the byte count it
\* asks the OS for is n_elements * sizeof(T) + CPU_PAGE_SIZE, not less.
LargeSizeNeverWraps ==
  (call.op = "allocate_large" /\ call.n # 0 /\ call.n <= max_size) =>
     /\ Len(RequestedBy(trace)) = 1
     /\ RequestedBy(trace)[1].size = call.n * sizeof_T + CPU_PAGE_SIZE

(***************************************************************************)
(* Properties of concurrent calls, checked under SpecThreads.              *)
(***************************************************************************)

\* the blocks a thread holds or is working on
BlocksOf(th) == th.own \cup (IF th.ptr = NULL THEN {} ELSE {th.ptr})

\* C22: in every interleaving of allocate / reallocate / deallocate calls of
\* several threads on one ut_allocator, each on blocks of its own, a step of
\* a call changes no block but the one the call works on and never the
\* allocator's key; what memory_free is handed is the header last written
\* for that block; and once every block is freed the accounting is balanced.
ConcurrentCallsKeepToTheirBlock ==
  /\ [][\A t \in Threads :
          /\ threads'[t].m_key = threads[t].m_key
          /\ threads'[t] # threads[t] =>
               /\ \A u \in Threads \ {t} : threads'[u] = threads[u]
               /\ \A a \in Addrs \ {threads[t].ptr, threads'[t].ptr, call'.ptr} :
                    heap'[a] = heap[a]
               /\ \A i \in 1..Len(trace') :
                    trace'[i].ev = "memory_free" =>
                      <<trace'[i].key, trace'[i].size, trace'[i].owner>> =
                        threads[t].booked[trace'[i].ptr]]_vars
  /\ [](\A t, u \in Threads :
          t # u => BlocksOf(threads[t]) \cap BlocksOf(threads[u]) = {})
  /\ []((\A t \in Threads : BlocksOf(threads[t]) = {}) =>
          /\ \A k \in PSI_keys : psi_bytes[k] = 0
          /\ Live(heap) = {})

ConcurrentCallsWitness ==
  /\ threads # NoThreads
  /\ \E t, u \in Threads :
       /\ t # u
       /\ threads[t].pc = "deallocate_trace"
       /\ threads[u].pc = "free"

(***************************************************************************)
(* Properties of net::dynamic_buffer, checked under SpecDyn.               *)
(***************************************************************************)

\* C23: a dynamic buffer over a string is a byte FIFO.  size() is the number
\* of bytes committed and not consumed, and the first size() characters of
\* the string are those bytes in commit order; with no prepare outstanding
\* after a commit the string is exactly those bytes; consume(m) takes min(m, size()) bytes
\* from the front; prepare(n) returns a region of exactly n bytes behind the
\* committed bytes whatever was prepared and not committed before.
DynamicBufferIsFifo ==
  /\ [](net.size_ = Len(net.committed))
  /\ [](SubSeq(net.v, 1, net.size_) = net.committed)
  /\ [](call.op = "commit" => net.v = net.committed)
  /\ [][call'.op = "consume" =>
          LET m == IF call'.n < net.size_ THEN call'.n ELSE net.size_
          IN  /\ net'.size_ = net.size_ - m
              /\ net'.v = SubSeq(net.v, m + 1, Len(net.v))
              /\ net'.committed = SubSeq(net.committed, m + 1, net.size_)]_vars
  /\ [][call'.op = "prepare" =>
          /\ net'.b = [off |-> net.size_, len |-> call'.n, valid |-> TRUE]
          /\ Len(net'.v) = net.size_ + call'.n
          /\ net'.size_ = net.size_]_vars

DynamicBufferWitness ==
  /\ net.class = "dynamic_buffer"
  /\ call.op = "consume"
  /\ net.v = "ba"

\* C24: net::consuming_buffers: prepare(n) leaves total_consumed() as it is;
\* consume(k) adds k to it; with c bytes consumed, the buffers prepare(n)
\* returns, read in order, are the bytes [c, min(c + n, total)) of the
\* underlying buffers laid end to end, each prepared buffer is the part of
\* that range inside one underlying buffer, there is one for every
\* underlying buffer the range reaches into, and no more than max_size().
RECURSIVE Concat(_)
Concat(bufs) == IF bufs = <<>> THEN "" ELSE Head(bufs) \o Concat(Tail(bufs))
RECURSIVE Bytes(_, _)
Bytes(bufs, prepared) ==
  IF prepared = <<>> THEN ""
  ELSE LET b == Head(prepared)
       IN  SubSeq(bufs[b.buf], b.off + 1, b.off + b.size)
             \o Bytes(bufs, Tail(prepared))
StartOf(bufs, i) == Len(Concat(SubSeq(bufs, 1, i - 1)))
Reached(bufs, from, to) ==
  {i \in 1..Len(bufs) :
     \E x \in from..(to - 1) :
       StartOf(bufs, i) <= x /\ x < StartOf(bufs, i) + Len(bufs[i])}
ArrayRoundTrip ==
  /\ [](call.op \in {"new_array", "allocate"} /\ call.exc = NoExc
          => n_elements_allocated(call.ret, [heap |-> heap]) = call.n)
  /\ [][\A a \in Addrs :
          heap[a].kind = "ut_allocator" /\ call'.ptr # a => heap'[a] = heap[a]]_vars
  /\ [][call'.op = "delete_array" /\ call'.ptr # NULL =>
          LET n == UserBytes(heap[call'.ptr]) \div sizeof_T
          IN  /\ Lifecycle(trace') =
                   Descending("dtor", n) \o << <<"free", 0>> >>
              /\ Len(trace') = n + 2
              /\ trace'[n + 1].ev = "memory_free"
              /\ trace'[n + 1].ptr = call'.ptr
              /\ trace'[n + 2] = EvOs("free", 0, call'.ptr)
              /\ heap'[call'.ptr] = NoBlock]_vars
  /\ [][call'.op = "delete_array" /\ call'.ptr = NULL =>
          trace' = <<>> /\ heap' = heap /\ psi_bytes' = psi_bytes]_vars
ArrayRoundTripWitness ==
  /\ call.op = "delete_array"
  /\ call.ptr # NULL
  /\ Lifecycle(trace) = << <<"dtor", 1>>, <<"dtor", 0>>, <<"free", 0>> >>

\* C26: every memory_alloc call of allocate, reallocate, new_array and
\* allocate_large is made under the allocator's m_key when that is not
\* PSI_NOT_INSTRUMENTED and under the key of the call otherwise (for
\* allocate_large, which takes no key, PSI_NOT_INSTRUMENTED); the header of
\* the block then holds the key memory_alloc returned, and every memory_free
\* call is made with the key the header of the block held.
IsMemoryAlloc(e) == e.ev = "memory_alloc"
IsMemoryFree(e) == e.ev = "memory_free"
ReallocateFailed(c) ==
  /\ c.op = "reallocate"
  /\ c.ptr # NULL
  /\ c.n > 0
  /\ c.ret = NULL
  /\ c.exc = NoExc
FailedReallocateLeavesOldBlock ==
  /\ [][ReallocateFailed(call') =>
          /\ heap[call'.ptr].kind = "ut_allocator"
          /\ heap' = heap
          /\ psi_bytes' = psi_bytes
          /\ AccountingCalls(trace') = <<>>]_vars
  /\ [][(/\ ReallocateFailed(call)
         /\ call'.op = "deallocate"
         /\ call'.ptr = call.ptr) =>
          /\ AccountingCalls(trace') =
               <<Ev("memory_free", heap[call.ptr].m_key, heap[call.ptr].m_size,
                    heap[call.ptr].m_owner, call.ptr)>>
          /\ heap'[call.ptr] = NoBlock]_vars
FailedReallocateWitness ==
  /\ ReallocateFailed(call)
  /\ call.n <= max_size
  /\ heap[call.ptr].kind = "ut_allocator"
  /\ heap[call.ptr].m_key = "mem_key_std"
  /\ Len(SelectSeq(trace, IsOsAttempt)) = alloc_max_retries

\* C28: a ut::new_arr_withkey<T>(key, Count{count}) that returns has got
\* sizeof(T) * count bytes, the product taken without wrap-around, and has
\* constructed count elements in them.
ArraySizeNeverWraps ==
  (call.op = "new_arr_withkey_count" /\ call.exc = NoExc) =>
    /\ detail_datalen(call.ret, [heap |-> heap]) = call.sizeof * call.n
    /\ Len(SelectSeq(trace, IsConstruction)) = call.n

\* C30: with len the number of characters of the file name before its first
\* '.' (all of them when it has none), the lookup yields the smallest index
\* i for which the first len characters of the file name are the first len
\* characters of auto_event_names[i], and -1 when there is none; with
\* len = 0 it yields index 0; and no comparison reads a character of an
\* entry behind its terminating NUL.
LookupComputesFirstEqualStart ==
  key_index # Unresolved =>
    LET len == Min({i \in 0..Len(file) :
                      i = Len(file) \/ SubSeq(file, i + 1, i + 1) = "."})
        name(e) == auto_event_names[e]
        SameStart(e) ==
          len <= Len(name(e)) /\ SubSeq(file, 1, len) = SubSeq(name(e), 1, len)
        hits == {e \in 1..n_auto : SameStart(e)}
        \* the loop reaches index i of entry e when all before it agreed
        Read(e, i) == \A k \in 0..(i - 1) : CharAt(name(e), k) = CharAt(file, k)
    IN  /\ key_index = IF hits = {} THEN -1 ELSE Min(hits) - 1
        /\ len = 0 => key_index = 0
        /\ \A e \in 1..n_auto : \A i \in 0..(len - 1) :
             i > Len(name(e)) => ~Read(e, i)
LookupWitness ==
  /\ file = ".h"
  /\ key_index = 0

====
